---- MODULE Spec2Model ----
(***************************************************************************)
(* Event-driven task notification subsystem: the event publisher and the   *)
(* task service that calls it, the push-notification hub with its          *)
(* dispatcher ingress, and the bus ingresses of the audit, recurring and   *)
(* reminder services.                                                      *)
(***************************************************************************)
EXTENDS Integers, Sequences, FiniteSets, TLC

\* ------------------------------------------------------------------ bounds

\* service calls (create/update/delete) made in one behaviour
MaxOps == 2
\* rows the todos table may hold
MaxTodos == 2

\* ------------------------------------------------------- optional values

\* Python's None and a present value v; <<>> and <<v>> compare in TLC
None == <<>>
Some(v) == <<v>>
IsNone(x) == x = <<>>
Val(x) == x[1]

\* ------------------------------------------------------------ data domains

Users == {"A", "B"}
Titles == {"t1", "t2"}
Statuses == {"active", "completed"}
\* reminder times, Unix seconds
ReminderTimes == {1, 2}

\* ============================ event publisher ============================

\* default of the retries parameter of _publish
Retries == 3

\* what one client.post of _publish can give: a status code or an exception
HttpStatuses == {200, 204, 201, 400, 500}
HttpExceptions == {"ConnectError", "TimeoutException", "Exception"}
BusOutcomes ==
    [kind : {"status"}, code : HttpStatuses, exc : {"-"}]
        \cup [kind : {"exc"}, code : {0}, exc : HttpExceptions]

StatusOutcome(c) == [kind |-> "status", code |-> c, exc |-> "-"]
ExcOutcome(e) == [kind |-> "exc", code |-> 0, exc |-> e]

RECURSIVE Pow2(_)
Pow2(n) == IF n = 0 THEN 1 ELSE 2 * Pow2(n - 1)

Min(a, b) == IF a < b THEN a ELSE b

\* delay of one backoff sleep, in milliseconds: min(2 ** attempt * 0.5, 10) s
_exponential_backoff_x2(attempt) == Min(Pow2(attempt) * 1000, 10000)
_exponential_backoff(attempt) == Min(Pow2(attempt) * 500, 10000)

\* "if response.status_code in (200, 204)"
IsSuccess_any_2xx(code) == code \in 200..299
IsSuccess_only204(code) == code = 204
IsSuccess(code) == code \in {200, 204}

\* "elif response.status_code >= 500"
IsServerError_from400(code) == code >= 400
IsServerError(code) == code >= 500

\* "if attempt < retries - 1" of the ConnectError and TimeoutException handlers
HasRetryLeft_never(attempt) == FALSE
HasRetryLeft_always(attempt) == TRUE
HasRetryLeft(attempt) == attempt < Retries - 1

VARIABLES
    db,          \* committed rows of the todos table: id -> row
    next_id,     \* next autoincrement primary key
    ops,         \* service calls made so far
    op,          \* the service call in progress (kind "none" when idle)
    op_pc,       \* "idle", "committed", "publishing", "done"
    op_result,   \* what the finished call gave its caller
    db_before,   \* the table as it was when the call in progress started
    op_pub,      \* how the publish of the call ended: "none", "true", "false", "raised"
    EVENTS_ENABLED, \* the environment variable, None when it is not set
    _enabled,    \* EventPublisher._enabled
    next_evt,    \* stands for uuid4: every draw is fresh
    pub_pc,      \* "idle", "attempt", "returned", "raised"
    pub_event,   \* the CloudEvent of the publish call in progress
    pub_attempt, \* loop variable of _publish
    pub_trace,   \* posts and sleeps of the publish call, in order
    pub_result,  \* return value of the publish call
    active_connections, \* ConnectionManager.active_connections: user_id -> set
    ws,          \* per websocket: its handler's position and what it was sent
    ev,          \* per dispatcher request: handler and broadcast position
    failed,      \* connections whose send raised in a broadcast that has ended
    rq,          \* per delivery at a consumer: its handler's position and calls
    jobs,        \* the scheduler's jobs: name -> the data the job was stored with
    statestore,  \* the state store: key -> value
    created,     \* tasks the backend created for the recurring service
    reminder_events, \* reminder.triggered events the bus accepted
    next_uuid,   \* stands for uuid4 in the audit service
    storage,     \* which in-memory storage the run uses: "module" or "TaskStore"
    _tasks,      \* the task list of the storage, in list order
    _task_id_counter, \* the id counter of the storage
    added,       \* the ids the successful add_task calls returned, in order
    last_call    \* the latest call made on the task manager

todoVars == <<db, next_id, ops, op, op_pc, op_result, db_before, op_pub>>
pubVars == <<EVENTS_ENABLED, _enabled, next_evt, pub_pc, pub_event, pub_attempt, pub_trace, pub_result>>
hubVars == <<active_connections, ws, ev, failed>>
svcVars == <<rq, jobs, statestore, created, reminder_events, next_uuid>>
taskVars == <<storage, _tasks, _task_id_counter, added, last_call>>
vars == <<todoVars, pubVars, hubVars, svcVars, taskVars>>

NoOp == [kind |-> "none", event |-> "none"]
NoEvent == [type |-> "none"]

Post(outcome, evt) == [kind |-> "post", outcome |-> outcome, evt |-> evt, delay |-> 0]
Sleep(delay) == [kind |-> "sleep", outcome |-> StatusOutcome(0), evt |-> <<>>, delay |-> delay]

IsPost(e) == e.kind = "post"
IsSleep(e) == e.kind = "sleep"
Posts(tr) == SelectSeq(tr, IsPost)
Sleeps(tr) == SelectSeq(tr, IsSleep)

\* ------------------------------------------------------------ CloudEvent

\* the envelope a publish_* method builds: its id and its time are taken once,
\* when the method builds it; the clock of a publish call starts at 0
CloudEvent(type, id, data) == [type |-> type, id |-> id, time |-> 0, data |-> data]

RECURSIVE Elapsed(_)
\* the time the sleeps of trace tr have taken
Elapsed(tr) == IF tr = <<>> THEN 0 ELSE Head(tr).delay + Elapsed(Tail(tr))

\* "json=event.model_dump()": the envelope an attempt posts, after trace tr
SentEvent_rebuilt(event, tr) == [event EXCEPT !.id = @ + Len(tr), !.time = Elapsed(tr)]
SentEvent(event, tr) == event

\* ---------------------------------------------------------------- _publish

\* values of EVENTS_ENABLED in the environment
EnvValues == {None, Some("true"), Some("True"), Some("false"), Some("0"), Some("")}

\* str.lower()
lower(s) == IF s = "True" THEN "true" ELSE s

\* os.getenv(name, default)
getenv(value, default) == IF IsNone(value) THEN default ELSE Val(value)

\* EventPublisher.__init__: self._enabled
EventPublisher_init(value) == lower(getenv(value, "true")) = "true"

\* "if not self._enabled:" at the entry of _publish
Skips_never(enabled) == FALSE
Skips(enabled) == ~enabled

\* entry of _publish: the feature flag is read before any HTTP call
_publish_enter(event) ==
    /\ pub_event' = event
    /\ pub_trace' = <<>>
    /\ pub_attempt' = 0
    /\ IF Skips(_enabled)
       THEN pub_pc' = "returned" /\ pub_result' = TRUE
       ELSE pub_pc' = "attempt" /\ pub_result' = FALSE

\* the loop "for attempt in range(retries)" moves on after a failed attempt
NextAttempt(tr) ==
    /\ pub_trace' = tr
    /\ pub_attempt' = pub_attempt + 1
    /\ IF pub_attempt + 1 < Retries
       THEN pub_pc' = "attempt" /\ pub_result' = pub_result
       ELSE pub_pc' = "returned" /\ pub_result' = FALSE

Return(tr, r) ==
    /\ pub_trace' = tr
    /\ pub_pc' = "returned"
    /\ pub_result' = r
    /\ pub_attempt' = pub_attempt

\* one iteration of the retry loop of _publish, with the outcome o of its post
_publish_attempt(o) ==
    LET sent == SentEvent(pub_event, pub_trace)
        tr == Append(pub_trace, Post(o, <<sent.id, sent.time>>)) IN
    IF o.kind = "status"
    THEN IF IsSuccess(o.code)
         THEN Return(tr, TRUE)
         ELSE IF IsServerError(o.code)
              THEN NextAttempt(Append(tr, Sleep(_exponential_backoff(pub_attempt))))
              ELSE Return(tr, FALSE)
    ELSE IF o.exc \in {"ConnectError", "TimeoutException"}
         THEN IF HasRetryLeft(pub_attempt)
              THEN NextAttempt(Append(tr, Sleep(_exponential_backoff(pub_attempt))))
              ELSE NextAttempt(tr)
         ELSE Return(tr, FALSE)

_publish ==
    /\ pub_pc = "attempt"
    /\ \E o \in BusOutcomes : _publish_attempt(o)
    /\ UNCHANGED <<EVENTS_ENABLED, _enabled, next_evt, pub_event, todoVars, hubVars, svcVars, taskVars>>


\* rendering of a value by str(): a string, never the value itself
StrOf(v) == [str |-> v]

\* -------------------------------------------------- publish_task_* calls

\* Building the envelope (datetime conversions, model validation) may raise
\* before _publish is entered; otherwise the envelope gets a fresh id once
\* and _publish runs with it.
publish_call(type, data) ==
    /\ op_pc = "committed"
    /\ op.event = type
    /\ op_pc' = "publishing"
    /\ \/ /\ pub_pc' = "raised"
          /\ UNCHANGED <<next_evt, pub_event, pub_attempt, pub_trace, pub_result>>
       \/ /\ _publish_enter(CloudEvent(type, next_evt, data))
          /\ next_evt' = next_evt + 1
    /\ UNCHANGED <<db, next_id, ops, op, op_result, db_before, op_pub, EVENTS_ENABLED, _enabled,
                   hubVars, svcVars, taskVars>>

publish_task_created ==
    publish_call("task.created",
                 [taskId |-> op.id, userId |-> op.user, title |-> op.title,
                  status |-> "active", reminderAt |-> op.reminder_at,
                  changes |-> None])

publish_task_updated ==
    publish_call("task.updated",
                 [taskId |-> op.id, userId |-> op.user, title |-> None,
                  status |-> None, reminderAt |-> None,
                  changes |-> Some(op.changes)])

publish_task_completed ==
    publish_call("task.completed",
                 [taskId |-> op.id, userId |-> op.user, title |-> None,
                  status |-> None, reminderAt |-> None,
                  changes |-> None])

publish_task_deleted ==
    publish_call("task.deleted",
                 [taskId |-> op.id, userId |-> op.user, title |-> None,
                  status |-> None, reminderAt |-> None,
                  changes |-> None])

\* ============================== todo service ==============================

Row(user, title, status, reminder_at) ==
    [user |-> user, title |-> title, status |-> status, reminder_at |-> reminder_at]

NoChanges == [title |-> None, status |-> None, reminder_at |-> None]

Result(kind, id) == [kind |-> kind, id |-> id]

CanCall == op_pc \in {"idle", "done"} /\ ops < MaxOps

\* a call starts: remember the table, clear the last call's result
StartCall(o) ==
    /\ ops' = ops + 1
    /\ op' = o
    /\ db_before' = db
    /\ op_pub' = "none"
    /\ UNCHANGED <<pubVars, hubVars, svcVars, taskVars>>

\* create_todo up to the publish: session.add, commit, refresh
create_todo(user, title, reminder_at) ==
    /\ CanCall
    /\ Cardinality(DOMAIN db) < MaxTodos
    /\ db' = [i \in DOMAIN db \cup {next_id} |->
                IF i = next_id THEN Row(user, title, "active", reminder_at) ELSE db[i]]
    /\ next_id' = next_id + 1
    /\ StartCall([kind |-> "create", id |-> next_id, user |-> user, title |-> title,
                  reminder_at |-> reminder_at, status |-> "active", changes |-> NoChanges,
                  event |-> "task.created", found |-> TRUE])
    /\ op_pc' = "committed"
    /\ op_result' = Result("pending", 0)

\* "if value is not None: if old_value != value" for one field
Changed_whenever_given(old, new) == ~IsNone(new)
Changed(old, new) == ~IsNone(new) /\ Val(new) # old

\* the changes entry of one field: old rendered only when truthy
ChangeOf(old, oldTruthy, new) ==
    Some([old |-> IF oldTruthy THEN Some(StrOf(old)) ELSE None, new |-> StrOf(Val(new))])

\* update_todo up to the publish: the field loop, commit, refresh, and the
\* choice of the event
update_todo(todo_id, user, title, status, reminder_at) ==
    /\ CanCall
    /\ IF todo_id \in DOMAIN db /\ db[todo_id].user = user
       THEN LET old == db[todo_id]
                chg == [title |-> IF Changed(old.title, title)
                                  THEN ChangeOf(old.title, TRUE, title) ELSE None,
                        status |-> IF Changed(old.status, status)
                                   THEN ChangeOf(old.status, TRUE, status) ELSE None,
                        reminder_at |->
                            IF ~IsNone(reminder_at) /\ Some(Val(reminder_at)) # old.reminder_at
                            THEN Some([old |-> IF IsNone(old.reminder_at) THEN None
                                               ELSE Some(StrOf(Val(old.reminder_at))),
                                       new |-> StrOf(Val(reminder_at))])
                            ELSE None]
                new == Row(old.user,
                           IF Changed(old.title, title) THEN Val(title) ELSE old.title,
                           IF Changed(old.status, status) THEN Val(status) ELSE old.status,
                           IF ~IsNone(reminder_at) THEN reminder_at ELSE old.reminder_at)
                evt == IF status = Some("completed") /\ old.status # "completed"
                       THEN "task.completed"
                       ELSE IF chg # NoChanges THEN "task.updated" ELSE "none"
            IN  /\ db' = [db EXCEPT ![todo_id] = new]
                /\ StartCall([kind |-> "update", id |-> todo_id, user |-> user,
                              title |-> new.title, reminder_at |-> new.reminder_at,
                              status |-> new.status,
                              changes |-> chg, event |-> evt, found |-> TRUE])
                /\ IF evt = "none"
                   THEN op_pc' = "done" /\ op_result' = Result("todo", todo_id)
                   ELSE op_pc' = "committed" /\ op_result' = Result("pending", 0)
       ELSE /\ db' = db
            /\ StartCall([kind |-> "update", id |-> todo_id, user |-> user,
                          title |-> "t1", reminder_at |-> None, status |-> "active",
                          changes |-> NoChanges, event |-> "none", found |-> FALSE])
            /\ op_pc' = "done"
            /\ op_result' = Result("None", 0)
    /\ UNCHANGED next_id

\* delete_todo up to the publish: session.delete, commit
delete_todo(todo_id, user) ==
    /\ CanCall
    /\ IF todo_id \in DOMAIN db /\ db[todo_id].user = user
       THEN /\ db' = [i \in DOMAIN db \ {todo_id} |-> db[i]]
            /\ StartCall([kind |-> "delete", id |-> todo_id, user |-> user,
                          title |-> "t1", reminder_at |-> None, status |-> "active",
                          changes |-> NoChanges, event |-> "task.deleted", found |-> TRUE])
            /\ op_pc' = "committed"
            /\ op_result' = Result("pending", 0)
       ELSE /\ db' = db
            /\ StartCall([kind |-> "delete", id |-> todo_id, user |-> user,
                          title |-> "t1", reminder_at |-> None, status |-> "active",
                          changes |-> NoChanges, event |-> "none", found |-> FALSE])
            /\ op_pc' = "done"
            /\ op_result' = Result("False", 0)
    /\ UNCHANGED next_id

\* what the call returns when nothing went wrong
NormalResult ==
    IF op.kind = "delete" THEN Result("True", 0) ELSE Result("todo", op.id)

\* A plausible slip: a failed publish undoes the mutation and fails the call.
after_publish_rollback ==
    /\ op_pc = "publishing"
    /\ pub_pc \in {"returned", "raised"}
    /\ op_pc' = "done"
    /\ IF pub_pc = "raised" \/ ~pub_result
       THEN db' = db_before /\ op_result' = Result("error", 0)
       ELSE db' = db /\ op_result' = NormalResult
    /\ op_pub' = IF pub_pc = "raised" THEN "raised" ELSE IF pub_result THEN "true" ELSE "false"
    /\ pub_pc' = "idle"
    /\ pub_trace' = <<>>
    /\ pub_event' = NoEvent
    /\ pub_attempt' = 0
    /\ pub_result' = FALSE
    /\ UNCHANGED <<next_id, ops, op, db_before, EVENTS_ENABLED, _enabled, next_evt,
                   hubVars, svcVars, taskVars>>

\* the end of create_todo, update_todo and delete_todo: the publish result is
\* dropped, "except Exception" logs a raised one, and the call returns
after_publish ==
    /\ op_pc = "publishing"
    /\ pub_pc \in {"returned", "raised"}
    /\ op_pc' = "done"
    /\ op_result' = NormalResult
    /\ op_pub' = IF pub_pc = "raised" THEN "raised" ELSE IF pub_result THEN "true" ELSE "false"
    /\ pub_pc' = "idle"
    /\ pub_trace' = <<>>
    /\ pub_event' = NoEvent
    /\ pub_attempt' = 0
    /\ pub_result' = FALSE
    /\ UNCHANGED <<db, next_id, ops, op, db_before, EVENTS_ENABLED, _enabled, next_evt,
                   hubVars, svcVars, taskVars>>

\* ========================= push notification hub =========================

\* websockets that may connect in one behaviour
NumConns == 3
\* bus deliveries to the dispatcher ingress in one behaviour
NumEvents == 2
\* inbound messages one websocket handler reads before the client leaves
MaxInbound == 1

Conns == 1..NumConns
Handlers == 1..NumEvents

\* bearer credentials a client may present, and what jwt.decode gives for each
Tokens == {"tokA", "tokB", "bad"}

\* get_user_from_token: the "sub" of a token that decodes, else None
get_user_from_token(token) ==
    CASE token = "tokA" -> Some("A")
      [] token = "tokB" -> Some("B")
      [] OTHER -> None

\* token: the credential presented; last: the inbound message read last
NewWs == [pc |-> "new", user |-> "-", client_state |-> "CONNECTING",
          est |-> 0, pong |-> 0, inbound |-> 0, close |-> 0,
          token |-> "-", last |-> "-"]

Keys(ac) == DOMAIN ac

\* the set object registered for user u, empty when there is none
ConnsOf(ac, u) == IF u \in Keys(ac) THEN ac[u] ELSE {}

\* lines 41-44 of connect: create the user's set when missing, add the socket
Register_under_first_user(ac, c, u) ==
    [k \in Keys(ac) \cup {"A"} |-> IF k = "A" THEN ConnsOf(ac, "A") \cup {c} ELSE ac[k]]
Register(ac, c, u) ==
    [k \in Keys(ac) \cup {u} |-> IF k = u THEN ConnsOf(ac, u) \cup {c} ELSE ac[k]]

\* ConnectionManager.disconnect: discard, and drop the key of an emptied set
disconnect_nothing(ac, c, u) == ac
disconnect_keep_empty(ac, c, u) ==
    IF u \in Keys(ac) THEN [ac EXCEPT ![u] = ac[u] \ {c}] ELSE ac
disconnect(ac, c, u) ==
    IF u \in Keys(ac)
    THEN IF ac[u] \ {c} = {}
         THEN [k \in Keys(ac) \ {u} |-> ac[k]]
         ELSE [ac EXCEPT ![u] = ac[u] \ {c}]
    ELSE ac

RECURSIVE SumLen(_, _)
\* "sum(len(conns) for conns in self.active_connections.values())" over keys ks
SumLen(ac, ks) ==
    IF ks = {} THEN 0
    ELSE LET k == CHOOSE x \in ks : TRUE
         IN  Cardinality(ac[k]) + SumLen(ac, ks \ {k})

\* ConnectionManager.get_connection_count(user_id = None): "if user_id:" is
\* false for None and for ""
get_connection_count_users(ac, user_id) ==
    IF ~IsNone(user_id) /\ Val(user_id) # ""
    THEN Cardinality(ConnsOf(ac, Val(user_id)))
    ELSE Cardinality(Keys(ac))
get_connection_count(ac, user_id) ==
    IF ~IsNone(user_id) /\ Val(user_id) # ""
    THEN Cardinality(ConnsOf(ac, Val(user_id)))
    ELSE SumLen(ac, Keys(ac))

\* ---- broadcasts suspended in a send, and what a registry change does to them

Iterating(h, u) == ev[h].pc = "sending" /\ ev[h].user = u /\ ev[h].it_alive

\* Another task changed user u's set from old to new (gone: the key was
\* deleted, so the iterated set object is emptied and no longer the registry's).
\* Every broadcast except `self` that is iterating that set object sees it.
Disturb(e, u, old, new, gone, self) ==
    [h \in Handlers |->
        IF h # self /\ Iterating(h, u) /\ (old # new \/ gone)
        THEN [e[h] EXCEPT !.it_mutated = TRUE, !.it_alive = ~gone]
        ELSE e[h]]

\* a registry change made by a websocket handler
SetRegistry(new, u) ==
    /\ active_connections' = new
    /\ ev' = Disturb(ev, u, ConnsOf(active_connections, u), ConnsOf(new, u),
                     u \in Keys(active_connections) /\ u \notin Keys(new), 0)

\* ------------------------------------------------------ websocket_endpoint

\* from the handshake to the first await: close(4001) on a bad credential,
\* else manager.connect, which awaits websocket.accept()
websocket_endpoint(c, token) ==
    /\ ws[c].pc = "new"
    /\ LET user_id == get_user_from_token(token) IN
       IF IsNone(user_id)
       THEN ws' = [ws EXCEPT ![c].pc = "rejected", ![c].close = 4001, ![c].token = token]
       ELSE ws' = [ws EXCEPT ![c].pc = "accepting", ![c].user = Val(user_id),
                             ![c].token = token]
    /\ UNCHANGED <<active_connections, ev, failed, todoVars, pubVars, svcVars, taskVars>>

\* accept() returned: the rest of connect registers the socket, and the handler
\* goes on to send connection.established. accept() raising ends the handler
\* before anything is registered (connect is outside the try).
connect(c, accepted) ==
    /\ ws[c].pc = "accepting"
    /\ IF accepted
       THEN /\ ws' = [ws EXCEPT ![c].pc = "greeting", ![c].client_state = "CONNECTED"]
            /\ SetRegistry(Register(active_connections, c, ws[c].user), ws[c].user)
       ELSE /\ ws' = [ws EXCEPT ![c].pc = "closed"]
            /\ UNCHANGED <<active_connections, ev>>
    /\ UNCHANGED <<failed, todoVars, pubVars, svcVars, taskVars>>

\* the handler ends: "finally: manager.disconnect(websocket, user_id)"
HandlerEnds(c, w) ==
    /\ ws' = [w EXCEPT ![c].pc = "closed"]
    /\ SetRegistry(disconnect(active_connections, c, ws[c].user), ws[c].user)

\* the send of connection.established completes or raises
established(c, sent) ==
    /\ ws[c].pc = "greeting"
    /\ IF sent
       THEN /\ ws' = [ws EXCEPT ![c].pc = "open", ![c].est = @ + 1]
            /\ UNCHANGED <<active_connections, ev>>
       ELSE HandlerEnds(c, ws)
    /\ UNCHANGED <<failed, todoVars, pubVars, svcVars, taskVars>>

\* what receive_text() and json.loads give the receive loop
Inbound == {"ping", "not_json", "not_object", "other_object", "disconnect", "error"}

\* one turn of the receive loop, up to its next await
receive(c, m) ==
    /\ ws[c].pc = "open"
    /\ m \in {"ping", "not_json", "other_object"} => ws[c].inbound < MaxInbound
    /\ CASE m = "ping" ->
              /\ ws' = [ws EXCEPT ![c].pc = "ponging", ![c].inbound = @ + 1, ![c].last = m]
              /\ UNCHANGED <<active_connections, ev>>
         [] m \in {"not_json", "other_object"} ->
              /\ ws' = [ws EXCEPT ![c].inbound = @ + 1, ![c].last = m]
              /\ UNCHANGED <<active_connections, ev>>
         [] m = "disconnect" ->
              HandlerEnds(c, [ws EXCEPT ![c].client_state = "DISCONNECTED", ![c].last = m])
         [] m \in {"not_object", "error"} ->
              HandlerEnds(c, [ws EXCEPT ![c].last = m])
    /\ UNCHANGED <<failed, todoVars, pubVars, svcVars, taskVars>>

\* the send of pong completes or raises
pong(c, sent) ==
    /\ ws[c].pc = "ponging"
    /\ IF sent
       THEN /\ ws' = [ws EXCEPT ![c].pc = "open", ![c].pong = @ + 1]
            /\ UNCHANGED <<active_connections, ev>>
       ELSE HandlerEnds(c, ws)
    /\ UNCHANGED <<failed, todoVars, pubVars, svcVars, taskVars>>

\* ------------------------------------------------------- event dispatcher

\* request bodies of POST /events/task: text that is no JSON, JSON that is no
\* object, and objects whose "data" is missing, null, a string or an object
\* whose "userId" is missing, "", a user id or a list
UserIds == {"missing", "empty", "A", "B", "list"}
EventTypes == {None, Some("task.updated")}
Body(json, type, data, userId) ==
    [json |-> json, type |-> type, data |-> data, userId |-> userId]
Bodies ==
    {Body("invalid", None, "missing", "missing"), Body("array", None, "missing", "missing")}
        \cup {Body("object", Some("task.updated"), d, "missing") : d \in {"missing", "null", "string"}}
        \cup {Body("object", t, "object", u) : t \in EventTypes, u \in UserIds}

\* truthiness of body["data"].get("userId")
Truthy(userId) == userId \notin {"missing", "empty"}

NoMsg == [type |-> None, data |-> "-", userId |-> "-"]

\* the message broadcast_event builds from what handle_task_event passes on
Message_data_only(body) == [type |-> None, data |-> body.data, userId |-> body.userId]
Message(body) == [type |-> body.type, data |-> body.data, userId |-> body.userId]

IdleEv == [pc |-> "idle", body |-> Body("invalid", None, "missing", "missing"),
           status |-> 0, called |-> 0, user |-> "-", msg |-> NoMsg,
           it_used |-> 0, it_alive |-> FALSE, it_mutated |-> FALSE,
           visited |-> {}, cur |-> 0, dead |-> {}, start |-> {},
           attempts |-> [c \in Conns |-> 0], raised |-> "none",
           failed_before |-> {}, removed |-> {}, closed_before |-> {}]

\* "return Response(status_code=status.HTTP_200_OK)" on both paths of
\* handle_task_event; exc names what the except clause caught
Respond_500_on_error(e, exc) ==
    [e EXCEPT !.pc = "done", !.status = IF exc = "none" THEN 200 ELSE 500,
              !.raised = exc, !.cur = 0]
Respond(e, exc) ==
    [e EXCEPT !.pc = "done", !.status = 200, !.raised = exc, !.cur = 0]

\* size of the set object a broadcast iterates
ItSize(e) == IF e.it_alive THEN Cardinality(ConnsOf(active_connections, e.user)) ELSE 0

\* which of the iterated connections broadcast_to_user goes on to: every one
\* not yet visited
Unvisited_first_only(e) == IF e.visited = {} THEN ConnsOf(active_connections, e.user) ELSE {}
Unvisited(e) ==
    IF e.it_alive THEN ConnsOf(active_connections, e.user) \ e.visited ELSE {}

\* "for ws in dead_connections: self.active_connections[user_id].discard(ws)"
\* and the return through broadcast_event and broadcast_task_event to the
\* handler, which answers 200
Cleanup(h, e) ==
    /\ failed' = failed \cup e.dead
    /\ IF e.dead = {}
       THEN /\ ev' = [ev EXCEPT ![h] = Respond(e, "none")]
            /\ UNCHANGED active_connections
       ELSE IF e.user \notin Keys(active_connections)
            THEN /\ ev' = [ev EXCEPT ![h] = Respond(e, "KeyError")]
                 /\ UNCHANGED active_connections
            ELSE LET old == active_connections[e.user]
                     new == old \ e.dead
                 IN  /\ active_connections' = [active_connections EXCEPT ![e.user] = new]
                     /\ ev' = Disturb([ev EXCEPT ![h] =
                                          Respond([e EXCEPT !.removed = old \cap e.dead], "none")],
                                      e.user, old, new, FALSE, h)

\* The for statement of broadcast_to_user asks the set iterator for the next
\* connection: RuntimeError when the set changed size since the iteration
\* began; else a connection not yet visited, skipping those whose
\* client_state is not CONNECTED, and the handler is suspended in its
\* send_json; else the loop ends. After a change of the set that kept its
\* size, the iterator may also end early.
Iterate(h, e) ==
    IF ItSize(e) # e.it_used
    THEN /\ ev' = [ev EXCEPT ![h] = Respond(e, "RuntimeError")]
         /\ failed' = failed \cup e.dead
         /\ UNCHANGED active_connections
    ELSE LET open == {c \in Unvisited(e) : ws[c].client_state = "CONNECTED"}
             shut == Unvisited(e) \ open
         IN  \/ \E c \in open, skipped \in SUBSET shut :
                  /\ ev' = [ev EXCEPT ![h] = [e EXCEPT !.pc = "sending", !.cur = c,
                                                       !.visited = @ \cup skipped \cup {c}]]
                  /\ UNCHANGED <<active_connections, failed>>
             \/ /\ open = {} \/ e.it_mutated
                /\ Cleanup(h, e)

\* broadcast_to_user up to its first await
broadcast_to_user(h, e) ==
    IF e.user \notin Keys(active_connections)
    THEN /\ ev' = [ev EXCEPT ![h] = Respond(e, "none")]
         /\ UNCHANGED <<active_connections, failed>>
    ELSE Iterate(h, [e EXCEPT !.it_used = Cardinality(active_connections[e.user]),
                              !.it_alive = TRUE,
                              !.start = active_connections[e.user],
                              !.failed_before = failed,
                              !.closed_before = {c \in Conns : ws[c].pc = "closed"}])

\* handle_task_event up to its first suspension in a send: parse the body,
\* take data.userId, and call the hub when it is truthy
handle_task_event(h, body) ==
    /\ ev[h].pc = "idle"
    /\ LET e == [ev[h] EXCEPT !.body = body] IN
       IF body.json = "invalid"
       THEN ev' = [ev EXCEPT ![h] = Respond(e, "JSONDecodeError")]
               /\ UNCHANGED <<active_connections, failed>>
       ELSE IF body.json # "object" \/ body.data \in {"null", "string"}
       THEN ev' = [ev EXCEPT ![h] = Respond(e, "AttributeError")]
               /\ UNCHANGED <<active_connections, failed>>
       ELSE IF ~Truthy(body.userId)
       THEN ev' = [ev EXCEPT ![h] = Respond(e, "none")]
               /\ UNCHANGED <<active_connections, failed>>
       ELSE IF body.userId = "list"
       THEN ev' = [ev EXCEPT ![h] = Respond([e EXCEPT !.called = 1, !.user = body.userId,
                                                      !.msg = Message(body)], "TypeError")]
               /\ UNCHANGED <<active_connections, failed>>
       ELSE broadcast_to_user(h, [e EXCEPT !.called = 1, !.user = body.userId,
                                           !.msg = Message(body)])
    /\ UNCHANGED <<ws, todoVars, pubVars, svcVars, taskVars>>

\* the send_json a broadcast was suspended in completes or raises, and the
\* loop goes on
send_json(h, sent) ==
    /\ ev[h].pc = "sending"
    /\ LET c == ev[h].cur
           e == [ev[h] EXCEPT !.attempts[c] = @ + 1,
                              !.dead = IF sent THEN @ ELSE @ \cup {c}]
       IN  Iterate(h, e)
    /\ UNCHANGED <<ws, todoVars, pubVars, svcVars, taskVars>>

\* ================ consumers: audit, recurring and reminder services ================

\* deliveries (bus events and job callbacks) the consumers handle in one behaviour
NumRequests == 2
Requests == 1 .. NumRequests

\* ------------------------------------------------------------- JSON values

\* a key that is absent, null, a number, a string, an ISO-8601 date-time string
\* (suffix "" for a naive one, "Z" for UTC, "+00:00Z" for the malformed form
\* isoformat() + "Z" gives for an aware datetime)
JMissing == <<"missing">>
JNull == <<"null">>
JInt(n) == <<"int", n>>
JStr(s) == <<"str", s>>
JDate(d, suffix) == <<"date", d, suffix>>

IsJInt(v) == v[1] = "int"
IsJStr(v) == v[1] \in {"str", "date"}

\* dict.get(key, default)
Get(v, default) == IF v = JMissing THEN default ELSE v

\* truth value of dict.get(key) in an if statement
PyTruthy(v) == v \notin {JMissing, JNull, JInt(0), JStr("")}

\* str() of a JSON value inside an f-string
FmtInt(n) == CASE n = 0 -> "0" [] n = 1 -> "1" [] n = 2 -> "2" [] OTHER -> "n"
Fmt(v) ==
    CASE v \in {JMissing, JNull} -> "None"
      [] IsJInt(v) -> FmtInt(v[2])
      [] OTHER -> "s"

\* ------------------------------------------------------------------ dates

\* calendar dates <<year, month, day>>; times of day are not modelled
Leap(y) == (y % 4 = 0 /\ y % 100 # 0) \/ y % 400 = 0
DaysIn(y, m) ==
    CASE m = 2 -> IF Leap(y) THEN 29 ELSE 28
      [] m \in {4, 6, 9, 11} -> 30
      [] OTHER -> 31

RECURSIVE AddDays(_, _)
\* date + timedelta(days = n), n >= 0
AddDays(d, n) ==
    IF d[3] + n <= DaysIn(d[1], d[2])
    THEN <<d[1], d[2], d[3] + n>>
    ELSE LET first == IF d[2] = 12 THEN <<d[1] + 1, 1, 1>> ELSE <<d[1], d[2] + 1, 1>>
         IN  AddDays(first, n - (DaysIn(d[1], d[2]) - d[3]) - 1)

RECURSIVE SubDays(_, _)
\* date - timedelta(days = n), n >= 0
SubDays(d, n) ==
    IF n < d[3]
    THEN <<d[1], d[2], d[3] - n>>
    ELSE LET y == IF d[2] = 1 THEN d[1] - 1 ELSE d[1]
             m == IF d[2] = 1 THEN 12 ELSE d[2] - 1
         IN  SubDays(<<y, m, DaysIn(y, m)>>, n - d[3])

\* date + timedelta(days = n) for any integer n
Shift(d, n) == IF n >= 0 THEN AddDays(d, n) ELSE SubDays(d, 0 - n)

\* date + relativedelta(months = n), n >= 0: the day is clamped to the month
AddMonths(d, n) ==
    LET total == (d[2] - 1) + n
        y == d[1] + (total \div 12)
        m == (total % 12) + 1
    IN  <<y, m, Min(d[3], DaysIn(y, m))>>

Before(a, b) ==
    \/ a[1] < b[1]
    \/ a[1] = b[1] /\ a[2] < b[2]
    \/ a[1] = b[1] /\ a[2] = b[2] /\ a[3] < b[3]

RECURSIVE DaysBetween(_, _)
\* (b - a).days for a not after b
DaysBetween(a, b) == IF a = b THEN 0 ELSE 1 + DaysBetween(AddDays(a, 1), b)

\* (a - b).days
Diff(a, b) == IF Before(a, b) THEN 0 - DaysBetween(a, b) ELSE DaysBetween(b, a)

\* a datetime object: its date and whether it carries a UTC offset
DateTime(d, aware) == [date |-> d, aware |-> aware]

\* datetime.utcnow() gives a naive datetime
Today == <<2024, 1, 30>>
utcnow == DateTime(Today, FALSE)

\* datetime.fromisoformat(s.replace("Z", "+00:00")): a datetime, or the
\* exception raised
fromisoformat(v) ==
    CASE ~IsJStr(v) -> [exc |-> "AttributeError", value |-> utcnow]
      [] v[1] = "date" /\ v[3] = "" -> [exc |-> "none", value |-> DateTime(v[2], FALSE)]
      [] v[1] = "date" /\ v[3] = "Z" -> [exc |-> "none", value |-> DateTime(v[2], TRUE)]
      [] OTHER -> [exc |-> "ValueError", value |-> utcnow]

\* dt.isoformat() + "Z"
isoformat_Z(dt) == JDate(dt.date, IF dt.aware THEN "+00:00Z" ELSE "Z")

\* the scheduler's clock, Unix seconds: datetime.utcnow().timestamp()
Now == 1

JTrue == <<"bool", TRUE>>
JFalse == <<"bool", FALSE>>

\* dict.get(key): None for an absent key
dget(v) == Get(v, JNull)

\* ------------------------------------------------- envelopes at the consumers

\* A request body as a consumer reads it.  json: what request.json() gives
\* ("invalid" raises); data: the shape of the "data" member; the other fields
\* are the members of data the handlers read (for a job callback task_id,
\* user_id and title are held in taskId, userId and title).  changes is the
\* shape of data.changes: "missing", "null", "other" (an object without the
\* reminder field) or the reminder key it holds; change is the shape of the
\* value under that key and new its "new" member.
B0 ==
    [json |-> "object", data |-> "object", id |-> JStr("e1"), type |-> JStr("task.created"),
     time |-> JStr("t0"),
     taskId |-> JInt(1), userId |-> JStr("A"), title |-> JStr("t1"),
     reminderAt |-> JMissing, changes |-> "missing", change |-> "object", new |-> JMissing,
     isRecurring |-> JMissing, recurrence |-> "missing", rule |-> JMissing,
     interval |-> JMissing]

Malformed ==
    {[B0 EXCEPT !.json = "invalid"], [B0 EXCEPT !.json = "array"],
     [B0 EXCEPT !.data = "string"], [B0 EXCEPT !.data = "missing"]}

\* event_data.get(f) after event_data = body.get("data", {})
Field(body, f) == IF body.data = "object" THEN body[f] ELSE JMissing

\* the exception raised by "body = await request.json()", "body.get(...)" and
\* the first "event_data.get(...)"
ParseError(body) ==
    CASE body.json = "invalid" -> "JSONDecodeError"
      [] body.json = "array" -> "AttributeError"
      [] body.data = "string" -> "AttributeError"
      [] OTHER -> "none"

\* a task as the backend's GET /api/todos/{id} returns it: json is the shape
\* of the response body ("invalid" makes response.json() raise, "empty" is {})
TaskJson(json, title, due, rem, rec, end) ==
    [json |-> json, title |-> title, due_date |-> due, reminder_at |-> rem,
     recurrence |-> rec, end_date |-> end]
NoTask == TaskJson("invalid", JMissing, JMissing, JMissing, "missing", JMissing)

\* ------------------------------------------------------------ the requests

NoCall ==
    [api |-> "-", key |-> "-", arg |-> <<>>, reply |-> StatusOutcome(0), result |-> FALSE]
IdleRq ==
    [pc |-> "idle", kind |-> "-", body |-> B0, status |-> 0, exc |-> "none",
     calls |-> <<>>, pending |-> NoCall]

\* "return Response(status_code=status.HTTP_200_OK)" at the end of the try
\* block and in the except clause of each ingress; exc is the exception the
\* except clause caught, "none" on the normal path
audit_response(exc) == 200
recurring_response(exc) == 200
reminder_response_500_on_error(exc) == IF exc = "none" THEN 200 ELSE 500
reminder_response(exc) == 200

Response(kind, exc) ==
    CASE kind = "audit" -> audit_response(exc)
      [] kind = "recurring" -> recurring_response(exc)
      [] OTHER -> reminder_response(exc)

\* the handler returns; exc is what its except clause caught
Finish(q, exc) ==
    [q EXCEPT !.pc = "done", !.exc = exc, !.status = Response(q.kind, exc),
              !.pending = NoCall]

\* the handler awaits a downstream call
Await(q, api, key, arg) ==
    [q EXCEPT !.pc = api, !.pending = [NoCall EXCEPT !.api = api, !.key = key, !.arg = arg]]

\* "return response.status_code in (...)" of a helper, False for an exception
Succeeded(o, codes) == o.kind = "status" /\ o.code \in codes

\* the awaited call has answered o and the helper returns result
Answered(q, o, result) ==
    [q EXCEPT !.calls = Append(@, [q.pending EXCEPT !.reply = o, !.result = result])]

\* whether the substrate carried a request out, given what the caller saw: it
\* did for a 2xx answer, did not for another status or a refused connection,
\* and may or may not have when the caller timed out
Applied(o) ==
    CASE o.kind = "status" -> {o.code \in 200 .. 299}
      [] o.exc = "ConnectError" -> {FALSE}
      [] OTHER -> BOOLEAN

\* ======================== reminder service ========================

\* f"reminder-{task_id}", by its suffix
JobName_fixed(task_id) == "0"
JobName(task_id) == Fmt(task_id)
JobNames == {"None", "0", "1", "2", "n", "s"}

Max(a, b) == IF a > b THEN a ELSE b

\* "delay_seconds = max(0, reminder_at - now)"
delay_seconds_at_least_1(reminder_at) == Max(1, reminder_at[2] - Now)
delay_seconds(reminder_at) == Max(0, reminder_at[2] - Now)

Job(task_id, user_id, title, reminder_at) ==
    [task_id |-> task_id, user_id |-> user_id, title |-> title,
     reminder_at |-> reminder_at, dueTime |-> delay_seconds(reminder_at)]

\* schedule_reminder up to its POST: reminder_at - now raises TypeError for a
\* string, a delay <= 0 returns False without a call
ThenSchedule(q, task_id, user_id, title, reminder_at) ==
    IF ~IsJInt(reminder_at)
    THEN Finish(q, "TypeError")
    ELSE IF delay_seconds(reminder_at) <= 0
         THEN Finish(q, "none")
         ELSE Await(q, "schedule", JobName(task_id),
                    Job(task_id, user_id, title, reminder_at))

\* cancel_reminder up to its DELETE
ThenCancel_skipped(q, task_id) == Await(q, "title", JobName(task_id), <<>>)
ThenCancel(q, task_id) == Await(q, "cancel", JobName(task_id), <<>>)

backendVars == <<todoVars, pubVars, hubVars>>

\* POST /events/task-created of the reminder service, up to its first await
reminder_handle_task_created(r, body) ==
    /\ rq[r].pc = "idle"
    /\ LET q == [rq[r] EXCEPT !.kind = "reminder.task-created", !.body = body]
           task_id == dget(Field(body, "taskId"))
           user_id == dget(Field(body, "userId"))
           title == dget(Field(body, "title"))
           reminder_at == dget(Field(body, "reminderAt"))
       IN  rq' = [rq EXCEPT ![r] =
                    IF ParseError(body) # "none"
                    THEN Finish(q, ParseError(body))
                    ELSE IF PyTruthy(reminder_at) /\ PyTruthy(task_id) /\ PyTruthy(user_id)
                         THEN ThenSchedule(q, task_id, user_id, title, reminder_at)
                         ELSE Finish(q, "none")]
    /\ UNCHANGED <<jobs, statestore, created, reminder_events, next_uuid, backendVars, taskVars>>

\* the value handle_task_updated reads as reminder_change:
\* changes.get("reminder_at") or changes.get("reminderAt", {})
\* "object", "string" (a truthy non-dict: .get raises), "null" or "empty" ({})
reminder_change(body) ==
    CASE body.changes = "reminder_at" /\ body.change \in {"object", "string"} -> body.change
      [] body.changes = "reminder_at" -> "empty"
      [] OTHER -> body.change

\* what the try block of handle_task_updated raises before its first await
UpdatedError(body) ==
    CASE ParseError(body) # "none" -> ParseError(body)
      [] body.data = "object" /\ body.changes = "null" -> "TypeError"
      [] body.data = "object" /\ body.changes \in {"reminder_at", "reminderAt"}
           /\ reminder_change(body) \in {"string", "null"} -> "AttributeError"
      [] OTHER -> "none"

\* "if 'reminder_at' in changes or 'reminderAt' in changes"
ReminderChanged_any_change(body) == body.data = "object" /\ body.changes # "missing"
ReminderChanged(body) == body.data = "object" /\ body.changes \in {"reminder_at", "reminderAt"}

\* new_reminder = reminder_change.get("new")
new_reminder(body) == IF reminder_change(body) = "object" THEN dget(body.new) ELSE JNull

\* POST /events/task-updated, up to its first await
reminder_handle_task_updated(r, body) ==
    /\ rq[r].pc = "idle"
    /\ LET q == [rq[r] EXCEPT !.kind = "reminder.task-updated", !.body = body]
       IN  rq' = [rq EXCEPT ![r] =
                    IF UpdatedError(body) # "none"
                    THEN Finish(q, UpdatedError(body))
                    ELSE IF ReminderChanged(body)
                         THEN ThenCancel(q, dget(Field(body, "taskId")))
                         ELSE Finish(q, "none")]
    /\ UNCHANGED <<jobs, statestore, created, reminder_events, next_uuid, backendVars, taskVars>>

\* POST /events/task-deleted and POST /events/task-completed, up to the await
CancelOnly(r, body, kind) ==
    /\ rq[r].pc = "idle"
    /\ LET q == [rq[r] EXCEPT !.kind = kind, !.body = body]
           task_id == dget(Field(body, "taskId"))
       IN  rq' = [rq EXCEPT ![r] =
                    IF ParseError(body) # "none"
                    THEN Finish(q, ParseError(body))
                    ELSE IF PyTruthy(task_id)
                         THEN ThenCancel(q, task_id)
                         ELSE Finish(q, "none")]
    /\ UNCHANGED <<jobs, statestore, created, reminder_events, next_uuid, backendVars, taskVars>>

reminder_handle_task_deleted(r, body) == CancelOnly(r, body, "reminder.task-deleted")
reminder_handle_task_completed(r, body) == CancelOnly(r, body, "reminder.task-completed")

\* the reminder.triggered event of publish_reminder_triggered, with the id
\* f"rem-{task_id}-{int(datetime.utcnow().timestamp())}"
ReminderTriggered(task_id, user_id, title) ==
    [type |-> "reminder.triggered", id |-> <<"rem", Fmt(task_id), Now>>,
     taskId |-> task_id, userId |-> user_id,
     title |-> title, triggeredAt |-> Now]

\* POST /job/{job_name}, up to the await of publish_reminder_triggered
handle_job_callback(r, body) ==
    /\ rq[r].pc = "idle"
    /\ LET q == [rq[r] EXCEPT !.kind = "reminder.job", !.body = body]
       IN  rq' = [rq EXCEPT ![r] =
                    IF ParseError(body) # "none"
                    THEN Finish(q, ParseError(body))
                    ELSE Await(q, "publish", "reminder-events",
                               ReminderTriggered(dget(Field(body, "taskId")),
                                                 dget(Field(body, "userId")),
                                                 Get(Field(body, "title"),
                                                     JStr("Task Reminder"))))]
    /\ UNCHANGED <<jobs, statestore, created, reminder_events, next_uuid, backendVars, taskVars>>

\* "if response.status_code in (200, 204, 404)" of cancel_reminder
cancel_codes_without_404 == {200, 204}
cancel_codes == {200, 204, 404}

\* the DELETE of cancel_reminder answers o: every answer and every exception
\* gives a return value the handlers ignore.  A 404 is the answer for a job
\* that does not exist.
cancel_reminder(r, o, applied) ==
    /\ rq[r].pc = "cancel"
    /\ applied \in Applied(o)
    /\ (o.kind = "status" /\ o.code = 404) => IsNone(jobs[rq[r].pending.key])
    /\ jobs' = IF applied THEN [jobs EXCEPT ![rq[r].pending.key] = None] ELSE jobs
    /\ LET q == Answered(rq[r], o, Succeeded(o, cancel_codes))
           body == q.body
       IN  rq' = [rq EXCEPT ![r] =
                    IF q.kind = "reminder.task-updated" /\ PyTruthy(new_reminder(body))
                    THEN Await(q, "title", Fmt(dget(Field(body, "taskId"))), <<>>)
                    ELSE Finish(q, "none")]
    /\ UNCHANGED <<statestore, created, reminder_events, next_uuid, backendVars, taskVars>>

\* get_task_title: the title of the fetched task, "Task Reminder" when the
\* fetch fails in any way
TitleOf(o, task) ==
    IF o.kind = "status" /\ o.code = 200 /\ task.json \in {"object", "empty"}
    THEN IF task.json = "object" THEN Get(task.title, JStr("Task Reminder"))
         ELSE JStr("Task Reminder")
    ELSE JStr("Task Reminder")

\* the GET of get_task_title answers o with body task; schedule_reminder follows
get_task_title(r, o, task) ==
    /\ rq[r].pc = "title"
    /\ LET q == Answered(rq[r], o, Succeeded(o, {200}))
           body == q.body
       IN  rq' = [rq EXCEPT ![r] =
                    ThenSchedule(q, dget(Field(body, "taskId")), dget(Field(body, "userId")),
                                 TitleOf(o, task), new_reminder(body))]
    /\ UNCHANGED <<jobs, statestore, created, reminder_events, next_uuid, backendVars, taskVars>>

\* the POST of schedule_reminder answers o
schedule_reminder(r, o, applied) ==
    /\ rq[r].pc = "schedule"
    /\ applied \in Applied(o)
    /\ jobs' = IF applied
               THEN [jobs EXCEPT ![rq[r].pending.key] = Some(rq[r].pending.arg)]
               ELSE jobs
    /\ rq' = [rq EXCEPT ![r] =
                Finish(Answered(rq[r], o, Succeeded(o, {200, 201, 204})), "none")]
    /\ UNCHANGED <<statestore, created, reminder_events, next_uuid, backendVars, taskVars>>

\* the POST of publish_reminder_triggered answers o
publish_reminder_triggered(r, o, applied) ==
    /\ rq[r].pc = "publish"
    /\ applied \in Applied(o)
    /\ reminder_events' = IF applied
                          THEN Append(reminder_events, rq[r].pending.arg)
                          ELSE reminder_events
    /\ rq' = [rq EXCEPT ![r] = Finish(Answered(rq[r], o, Succeeded(o, {200, 204})), "none")]
    /\ UNCHANGED <<jobs, statestore, created, next_uuid, backendVars, taskVars>>

\* ========================= audit service =========================

\* str() of an envelope's id inside the f-string: the text of a string, the
\* digits of a number, "None" for null
IdText(v) ==
    CASE v = JNull -> "None"
      [] IsJInt(v) -> FmtInt(v[2])
      [] OTHER -> v[2]

\* f"audit-{event_id}" with event_id = body.get("id", f"evt-{uuid.uuid4()}")
AuditKey_by_task(body) == <<"id", Fmt(Field(body, "taskId"))>>
AuditKey(body) ==
    IF body.id = JMissing THEN <<"evt", next_uuid>> ELSE <<"id", IdText(body.id)>>

\* pydantic's validation of AuditEntry(...): task_id must be an integer,
\* user_id and event_type strings
AuditEntryError(body) ==
    CASE ~IsJInt(Get(Field(body, "taskId"), JInt(0))) -> "ValidationError"
      [] ~IsJStr(Get(Field(body, "userId"), JStr(""))) -> "ValidationError"
      [] ~IsJStr(Get(body.type, JStr("unknown"))) -> "ValidationError"
      [] ~IsJStr(Get(body.time, JStr("now"))) -> "ValidationError"
      [] OTHER -> "none"

AuditEntry(body) ==
    [id |-> AuditKey(body),
     task_id |-> Get(Field(body, "taskId"), JInt(0)),
     user_id |-> Get(Field(body, "userId"), JStr("")),
     event_type |-> Get(body.type, JStr("unknown")),
     payload |-> [data |-> body.data, title |-> Field(body, "title")],
     created_at |-> Get(body.time, JStr("now"))]

\* POST /events/audit, up to the await of save_audit_entry
handle_audit_event(r, body) ==
    /\ rq[r].pc = "idle"
    /\ LET q == [rq[r] EXCEPT !.kind = "audit", !.body = body]
       IN  rq' = [rq EXCEPT ![r] =
                    IF ParseError(body) # "none"
                    THEN Finish(q, ParseError(body))
                    ELSE IF AuditEntryError(body) # "none"
                         THEN Finish(q, AuditEntryError(body))
                         ELSE Await(q, "save", AuditKey(body), AuditEntry(body))]
    /\ next_uuid' = IF ParseError(body) = "none" /\ body.id = JMissing
                    THEN next_uuid + 1 ELSE next_uuid
    /\ UNCHANGED <<jobs, statestore, created, reminder_events, backendVars, taskVars>>

\* the state store after a write of value under key
Upsert(store, key, value) ==
    [k \in DOMAIN store \cup {key} |-> IF k = key THEN value ELSE store[k]]

\* the POST of save_audit_entry answers o; the handler logs the result
save_audit_entry(r, o, applied) ==
    /\ rq[r].pc = "save"
    /\ applied \in Applied(o)
    /\ statestore' = IF applied
                     THEN Upsert(statestore, rq[r].pending.key, rq[r].pending.arg)
                     ELSE statestore
    /\ rq' = [rq EXCEPT ![r] = Finish(Answered(rq[r], o, Succeeded(o, {200, 204})), "none")]
    /\ UNCHANGED <<jobs, created, reminder_events, next_uuid, backendVars, taskVars>>

\* GET /api/audit/{entry_id}, up to the await of the state store's GET
get_audit_entry_by_id(r, entry_id) ==
    /\ rq[r].pc = "idle"
    /\ rq' = [rq EXCEPT ![r] =
                Await([rq[r] EXCEPT !.kind = "audit.get"], "getstate", <<"id", entry_id>>, <<>>)]
    /\ UNCHANGED <<jobs, statestore, created, reminder_events, next_uuid, backendVars, taskVars>>

\* "if not entry: return Response(status_code=404)", else the entry with 200
get_response_always_200(entry) == 200
get_response(entry) == IF IsNone(entry) THEN 404 ELSE 200

\* The GET of get_audit_entry answers o: the state store answers 200 with the
\* value for a key it holds and 204 for one it does not. get_audit_entry
\* returns the entry for a 200, None for any other answer and for every
\* exception; the endpoint answers 404 for None.
get_audit_entry(r, o) ==
    /\ rq[r].pc = "getstate"
    /\ LET key == rq[r].pending.key
           held == key \in DOMAIN statestore
           entry == IF o.kind = "status" /\ o.code = 200 THEN Some(statestore[key]) ELSE None
           q == Answered([rq[r] EXCEPT !.pending.arg = entry], o, ~IsNone(entry))
       IN  /\ o.kind = "status" /\ o.code = 200 => held
           /\ o.kind = "status" /\ o.code = 204 => ~held
           /\ rq' = [rq EXCEPT ![r] = [Finish(q, "none") EXCEPT !.status = get_response(entry)]]
    /\ UNCHANGED <<jobs, statestore, created, reminder_events, next_uuid, backendVars, taskVars>>

\* ======================= recurring service =======================

\* what the try block of handle_task_completed raises before its first await
CompletedError(body) ==
    CASE ParseError(body) # "none" -> ParseError(body)
      [] body.data = "object" /\ PyTruthy(Get(body.isRecurring, JFalse))
           /\ body.recurrence = "string" -> "AttributeError"
      [] OTHER -> "none"

\* "if is_recurring and recurrence:" and "if rule:"
WantsNext(body) ==
    /\ body.data = "object"
    /\ PyTruthy(Get(body.isRecurring, JFalse))
    /\ body.recurrence = "object"
    /\ PyTruthy(dget(body.rule))

\* POST /events/task-completed of the recurring service, up to the await of
\* get_task_details
recurring_handle_task_completed(r, body) ==
    /\ rq[r].pc = "idle"
    /\ LET q == [rq[r] EXCEPT !.kind = "recurring", !.body = body]
       IN  rq' = [rq EXCEPT ![r] =
                    IF CompletedError(body) # "none"
                    THEN Finish(q, CompletedError(body))
                    ELSE IF WantsNext(body)
                         THEN Await(q, "get", Fmt(dget(Field(body, "taskId"))), <<>>)
                         ELSE Finish(q, "none")]
    /\ UNCHANGED <<jobs, statestore, created, reminder_events, next_uuid, backendVars, taskVars>>

\* calculate_next_occurrence(rule, interval, base_date), on dates
calculate_next_occurrence_30_day_months(rule, interval, base) ==
    CASE rule = JStr("weekly") -> Shift(base, 7 * interval)
      [] rule = JStr("monthly") -> Shift(base, 30 * interval)
      [] OTHER -> Shift(base, interval)
calculate_next_occurrence(rule, interval, base) ==
    CASE rule = JStr("daily") -> Shift(base, interval)
      [] rule = JStr("weekly") -> Shift(base, 7 * interval)
      [] rule = JStr("monthly") -> AddMonths(base, interval)
      [] OTHER -> Shift(base, interval)

\* create_next_occurrence between the answer of get_task_details and the call
\* of create_task_via_dapr, for the fetched task t: the exception it raises
\* (exc), whether it returns because the recurrence has ended (ended), and the
\* task to create (new_task)
NextOccurrence(rule, interval, t) ==
    LET due == fromisoformat(dget(t.due_date))
        has_due == PyTruthy(dget(t.due_date)) /\ due.exc = "none"
        base == IF has_due THEN due.value ELSE utcnow
        n == IF IsJInt(interval) THEN interval[2] ELSE 0
        next_due == DateTime(calculate_next_occurrence(rule, n, base.date), base.aware)
        rem == fromisoformat(dget(t.reminder_at))
        tries_rem == PyTruthy(dget(t.reminder_at)) /\ has_due
        has_rem == tries_rem /\ rem.exc = "none" /\ rem.value.aware = base.aware
        next_reminder ==
            DateTime(Shift(next_due.date, 0 - Diff(base.date, rem.value.date)), next_due.aware)
        end_json == IF t.recurrence = "object" THEN dget(t.end_date) ELSE JNull
        end == fromisoformat(end_json)
        exc ==
            CASE t.json = "array" -> "AttributeError"
              [] PyTruthy(dget(t.due_date)) /\ due.exc = "AttributeError" -> "AttributeError"
              [] ~IsJInt(interval) -> "TypeError"
              [] tries_rem /\ rem.exc = "AttributeError" -> "AttributeError"
              [] t.recurrence = "null" -> "AttributeError"
              [] PyTruthy(end_json) /\ end.exc = "AttributeError" -> "AttributeError"
              [] OTHER -> "none"
    IN  [exc |-> exc,
         ended |-> /\ PyTruthy(end_json)
                   /\ end.exc = "none"
                   /\ end.value.aware = next_due.aware
                   /\ Before(end.value.date, next_due.date),
         new_task |-> [title |-> Get(t.title, JStr("Recurring Task")),
                       due_date |-> isoformat_Z(next_due),
                       rule |-> rule, interval |-> interval, end_date |-> end_json,
                       reminder_at |-> IF has_rem THEN isoformat_Z(next_reminder)
                                       ELSE JMissing]]

\* the GET of get_task_details answers o with body task; the rest of
\* create_next_occurrence follows, up to the POST of create_task_via_dapr.
\* httpx refuses a header value that is not a string, inside the try block of
\* create_task_via_dapr: no request is made then.
get_task_details(r, o, task) ==
    /\ rq[r].pc = "get"
    /\ LET q == Answered([rq[r] EXCEPT !.pending.arg = task], o, Succeeded(o, {200}))
           body == q.body
           fetched == o.kind = "status" /\ o.code = 200 /\ task.json \in {"object", "array"}
           plan == NextOccurrence(dget(body.rule), Get(body.interval, JInt(1)), task)
           user_id == dget(Field(body, "userId"))
       IN  rq' = [rq EXCEPT ![r] =
                    IF ~fetched
                    THEN Finish(q, "none")
                    ELSE IF plan.exc # "none"
                         THEN Finish(q, plan.exc)
                         ELSE IF plan.ended \/ ~IsJStr(user_id)
                              THEN Finish(q, "none")
                              ELSE Await(q, "create", Fmt(user_id), plan.new_task)]
    /\ UNCHANGED <<jobs, statestore, created, reminder_events, next_uuid, backendVars, taskVars>>

\* the POST of create_task_via_dapr answers o
create_task_via_dapr(r, o, applied) ==
    /\ rq[r].pc = "create"
    /\ applied \in Applied(o)
    /\ created' = IF applied THEN Append(created, rq[r].pending.arg) ELSE created
    /\ rq' = [rq EXCEPT ![r] = Finish(Answered(rq[r], o, Succeeded(o, {200, 201})), "none")]
    /\ UNCHANGED <<jobs, statestore, reminder_events, next_uuid, backendVars, taskVars>>

\* ------------------------------------------------ the consumers' environment

InitConsumers ==
    /\ rq = [r \in Requests |-> IdleRq]
    /\ jobs = [n \in JobNames |-> None]
    /\ statestore = <<>>
    /\ created = <<>>
    /\ reminder_events = <<>>
    /\ next_uuid = 1

\* answers of the sidecar (scheduler, state store, publish, service invocation)
SidecarReplies ==
    {StatusOutcome(c) : c \in {200, 404, 500}}
        \cup {ExcOutcome("ConnectError"), ExcOutcome("TimeoutException")}

\* task.created envelopes at the reminder service
CreatedBodies ==
    Malformed
        \cup {[B0 EXCEPT !.reminderAt = v] :
                 v \in {JMissing, JInt(0), JInt(1), JInt(2), JStr("2024-02-01 09:00:00")}}
        \cup {[B0 EXCEPT !.reminderAt = JInt(2), !.userId = JMissing]}

\* task.updated envelopes
UpdatedBodies ==
    Malformed
        \cup {[B0 EXCEPT !.changes = c] : c \in {"missing", "null", "other"}}
        \cup {[B0 EXCEPT !.changes = "reminder_at", !.change = s] : s \in {"string", "null"}}
        \cup {[B0 EXCEPT !.changes = "reminder_at", !.new = v] :
                 v \in {JMissing, JNull, JInt(1), JInt(2), JStr("2024-02-01 09:00:00")}}
        \cup {[B0 EXCEPT !.changes = "reminderAt", !.change = "null"],
              [B0 EXCEPT !.changes = "reminderAt", !.new = JInt(2)]}

\* task.deleted and task.completed envelopes at the reminder service
CancelBodies == Malformed \cup {B0, [B0 EXCEPT !.taskId = JMissing]}

\* job callback bodies: the data a job was stored with
JobBodies == Malformed \cup {B0, [B0 EXCEPT !.title = JMissing]}

\* envelopes at the audit service
AuditBodies ==
    Malformed
        \cup {B0, [B0 EXCEPT !.id = JMissing], [B0 EXCEPT !.id = JStr("e2")],
              [B0 EXCEPT !.taskId = JStr("one")], [B0 EXCEPT !.userId = JNull],
              [B0 EXCEPT !.type = JNull]}

\* task.completed envelopes at the recurring service
Recurring(rule, interval) ==
    [B0 EXCEPT !.isRecurring = JTrue, !.recurrence = "object", !.rule = rule,
               !.interval = interval]
CompletedBodies ==
    Malformed
        \cup {B0, [B0 EXCEPT !.isRecurring = JTrue, !.recurrence = "string"],
              Recurring(JMissing, JInt(1)), Recurring(JStr("daily"), JMissing),
              Recurring(JStr("monthly"), JInt(1)), Recurring(JStr("daily"), JStr("2")),
              [Recurring(JStr("weekly"), JInt(1)) EXCEPT !.userId = JMissing]}

\* bodies of the backend's answer to GET /api/todos/{id}
Jan31 == JDate(<<2024, 1, 31>>, "")
FetchedTasks ==
    {NoTask,
     TaskJson("empty", JMissing, JMissing, JMissing, "missing", JMissing),
     TaskJson("array", JMissing, JMissing, JMissing, "missing", JMissing),
     TaskJson("object", JStr("t1"), JNull, JNull, "missing", JMissing),
     TaskJson("object", JStr("t1"), Jan31, JNull, "null", JMissing),
     TaskJson("object", JStr("t1"), Jan31, JDate(<<2024, 1, 30>>, ""), "object", JNull),
     TaskJson("object", JStr("t1"), Jan31, JNull, "object", JDate(<<2024, 2, 10>>, "")),
     TaskJson("object", JMissing, JInt(5), JNull, "object", JDate(<<2024, 3, 10>>, "Z"))}

\* the body that comes with answer o of a GET
Fetched(o) == IF o.kind = "status" /\ o.code = 200 THEN FetchedTasks ELSE {NoTask}

NextConsumers ==
    \E r \in Requests :
        \/ \E body \in AuditBodies : handle_audit_event(r, body)
        \/ \E body \in CompletedBodies : recurring_handle_task_completed(r, body)
        \/ \E body \in CreatedBodies : reminder_handle_task_created(r, body)
        \/ \E body \in UpdatedBodies : reminder_handle_task_updated(r, body)
        \/ \E body \in CancelBodies : reminder_handle_task_deleted(r, body)
        \/ \E body \in CancelBodies : reminder_handle_task_completed(r, body)
        \/ \E body \in JobBodies : handle_job_callback(r, body)
        \/ \E o \in SidecarReplies, applied \in BOOLEAN :
              \/ save_audit_entry(r, o, applied)
              \/ create_task_via_dapr(r, o, applied)
              \/ cancel_reminder(r, o, applied)
              \/ schedule_reminder(r, o, applied)
              \/ publish_reminder_triggered(r, o, applied)
        \/ \E o \in SidecarReplies : \E task \in Fetched(o) :
              \/ get_task_details(r, o, task)
              \/ get_task_title(r, o, task)

\* -------------------------------------------------------------- SpecHub

InitHub ==
    /\ active_connections = <<>>
    /\ ws = [c \in Conns |-> NewWs]
    /\ ev = [h \in Handlers |-> IdleEv]
    /\ failed = {}

\* The hub under registry traffic: the first two of every three websockets
\* present user A's credential and the third user B's, clients leave or their
\* receive fails, and the bus delivers well-formed envelopes for both users.
HubToken(c) == IF c % 3 = 0 THEN "tokB" ELSE "tokA"
HubInbound == {"disconnect", "error"}
HubBodies == {Body("object", Some("task.updated"), "object", u) : u \in Users}

NextHub ==
    \/ \E c \in Conns : websocket_endpoint(c, HubToken(c))
    \/ \E c \in Conns, ok \in BOOLEAN : connect(c, ok)
    \/ \E c \in Conns, ok \in BOOLEAN : established(c, ok)
    \/ \E c \in Conns, m \in HubInbound : receive(c, m)
    \/ \E h \in Handlers, b \in HubBodies : handle_task_event(h, b)
    \/ \E h \in Handlers, ok \in BOOLEAN : send_json(h, ok)

\* The push channel under every credential and every inbound message: two
\* websockets, and one bus delivery for either user.
ChannelConns == {1, 2}
NextChannel ==
    \/ \E c \in ChannelConns, t \in Tokens : websocket_endpoint(c, t)
    \/ \E c \in ChannelConns, ok \in BOOLEAN : connect(c, ok)
    \/ \E c \in ChannelConns, ok \in BOOLEAN : established(c, ok)
    \/ \E c \in ChannelConns, m \in Inbound : receive(c, m)
    \/ \E c \in ChannelConns, ok \in BOOLEAN : pong(c, ok)
    \/ \E b \in HubBodies : handle_task_event(1, b)
    \/ \E ok \in BOOLEAN : send_json(1, ok)

\* The dispatcher ingress under every shape of request body, with one
\* websocket of user A coming and going.
NextDispatch ==
    \/ websocket_endpoint(1, "tokA")
    \/ \E ok \in BOOLEAN : connect(1, ok)
    \/ \E ok \in BOOLEAN : established(1, ok)
    \/ \E m \in Inbound : receive(1, m)
    \/ \E ok \in BOOLEAN : pong(1, ok)
    \/ \E h \in Handlers, b \in Bodies : handle_task_event(h, b)
    \/ \E h \in Handlers, ok \in BOOLEAN : send_json(h, ok)

\* ------------------------------------------------------------------- Spec

InitBackend ==
    /\ db = <<>>
    /\ next_id = 1
    /\ ops = 0
    /\ op = NoOp
    /\ op_pc = "idle"
    /\ op_result = Result("pending", 0)
    /\ db_before = <<>>
    /\ op_pub = "none"
    /\ EVENTS_ENABLED \in EnvValues
    /\ _enabled = EventPublisher_init(EVENTS_ENABLED)
    /\ next_evt = 1
    /\ pub_pc = "idle"
    /\ pub_event = NoEvent
    /\ pub_attempt = 0
    /\ pub_trace = <<>>
    /\ pub_result = FALSE

\* tasks are created under one title; updates rename them to any title
CreateTitles == {"t1"}
OptTitles == {None} \cup {Some(t) : t \in Titles}
OptStatuses == {None} \cup {Some(s) : s \in Statuses}
OptReminders == {None} \cup {Some(r) : r \in ReminderTimes}
TodoIds == 1..MaxTodos

Next ==
    \/ \E u \in Users, t \in CreateTitles, r \in OptReminders : create_todo(u, t, r)
    \/ \E i \in TodoIds, u \in Users, t \in OptTitles, s \in OptStatuses, r \in OptReminders :
          update_todo(i, u, t, s, r)
    \/ \E i \in TodoIds, u \in Users : delete_todo(i, u)
    \/ publish_task_created
    \/ publish_task_updated
    \/ publish_task_completed
    \/ publish_task_deleted
    \/ _publish
    \/ after_publish

\* ------------------------------------------- from the task service to the
\* ------------------------------------------- reminder service, over the bus

\* str() of a datetime, "YYYY-MM-DD HH:MM:SS", for the reminder times
DateText(t) ==
    CASE t = 1 -> "1970-01-01 00:00:01"
      [] t = 2 -> "1970-01-01 00:00:02"
      [] OTHER -> "1970-01-01 00:00:03"

\* an optional Unix timestamp as JSON: null or a number
JsonTime(t) == IF IsNone(t) THEN JNull ELSE JInt(Val(t))

\* The request body the bus delivers for CloudEvent e: event.model_dump() sent
\* as JSON by _publish and read back by request.json(). The changes of a
\* task.updated hold what update_todo put there, the str() of the new value.
Delivered(e) ==
    LET d == e.data
        chg == IF IsNone(d.changes) THEN NoChanges ELSE Val(d.changes)
    IN  [B0 EXCEPT !.id = JStr(FmtInt(e.id)),
                   !.type = JStr(e.type),
                   !.taskId = JInt(d.taskId),
                   !.userId = JStr(d.userId),
                   !.title = IF e.type = "task.created" THEN JStr(d.title) ELSE JMissing,
                   !.reminderAt = IF e.type = "task.created" THEN JsonTime(d.reminderAt)
                                  ELSE JMissing,
                   !.changes = IF IsNone(d.changes) THEN "missing"
                               ELSE IF IsNone(chg.reminder_at) THEN "other"
                               ELSE "reminder_at",
                   !.change = "object",
                   !.new = IF IsNone(chg.reminder_at) THEN JMissing
                           ELSE JStr(DateText(Val(chg.reminder_at).new.str))]

\* the bus has accepted the event of the publish call in progress
Accepted(type) ==
    /\ op_pc = "publishing"
    /\ pub_pc = "returned" /\ pub_result /\ pub_trace # <<>>
    /\ pub_event.type = type

\* the bus delivers an accepted event to its subscriber at the reminder
\* service, at least once, and the ingress runs up to its first await
deliver_task_created(r) ==
    /\ Accepted("task.created")
    /\ reminder_handle_task_created(r, Delivered(pub_event))

deliver_task_updated(r) ==
    /\ Accepted("task.updated")
    /\ reminder_handle_task_updated(r, Delivered(pub_event))

\* One user's tasks with reminders, from the service call to the scheduler:
\* tasks are created with or without a reminder in the future and their
\* reminder is moved to a time in the future; the scheduler accepts or refuses.
PipelineCreates == {None, Some(2)}
PipelineUpdates == {Some(2), Some(3)}
PipelineReplies == {StatusOutcome(200), StatusOutcome(500)}

NextPipeline ==
    \/ \E r \in PipelineCreates : create_todo("A", "t1", r)
    \/ \E i \in TodoIds, r \in PipelineUpdates : update_todo(i, "A", None, None, r)
    \/ publish_task_created
    \/ publish_task_updated
    \/ _publish
    \/ after_publish
    \/ \E r \in Requests :
          \/ deliver_task_created(r)
          \/ deliver_task_updated(r)
          \/ \E o \in PipelineReplies, applied \in BOOLEAN :
                \/ cancel_reminder(r, o, applied)
                \/ schedule_reminder(r, o, applied)
          \/ \E o \in PipelineReplies : \E task \in Fetched(o) : get_task_title(r, o, task)

\* -------------------------------------------------------- SpecRecurring

\* recurrence intervals of the completed tasks
MaxInterval == 3

\* task.completed envelopes of recurring tasks, as the publisher emits them
RecurringCompleted ==
    {Recurring(JStr(rule), JInt(n)) : rule \in {"daily", "weekly", "monthly"},
                                     n \in 1 .. MaxInterval}

\* The tasks the backend returns for them: without a due date or due at the
\* end of a month, without an end of the recurrence or with one, each date
\* written without a UTC offset or with the suffix "Z".
DueDates ==
    {JNull, JDate(<<2024, 1, 31>>, ""), JDate(<<2024, 1, 31>>, "Z"),
     JDate(<<2023, 1, 31>>, ""), JDate(<<2023, 12, 31>>, "")}
EndDates ==
    {JNull, JDate(<<2024, 2, 1>>, ""), JDate(<<2024, 2, 1>>, "Z"),
     JDate(<<2025, 1, 1>>, "")}
RecurringTasks ==
    {TaskJson("object", JStr("t1"), due, JNull, "object", end) :
        due \in DueDates, end \in EndDates}

NextRecurring ==
    \E r \in Requests :
        \/ \E body \in RecurringCompleted : recurring_handle_task_completed(r, body)
        \/ \E o \in PipelineReplies :
              \E task \in (IF o.code = 200 THEN RecurringTasks ELSE {NoTask}) :
                 get_task_details(r, o, task)
        \/ \E o \in PipelineReplies, applied \in BOOLEAN : create_task_via_dapr(r, o, applied)

\* ------------------------------------------------------------ SpecAudit

\* Envelopes at the audit service as the publisher emits them: two envelopes
\* of one task with their own ids, an envelope of another type that carries
\* the id of the first, and an envelope without an id.
AuditEnvelopes ==
    {B0, [B0 EXCEPT !.id = JStr("e2"), !.type = JStr("task.updated")],
     [B0 EXCEPT !.type = JStr("task.deleted")], [B0 EXCEPT !.id = JMissing]}

\* entry ids a client asks for
AskedIds == {"e1", "e2", "e3"}

\* answers of the state store
StateReplies ==
    {StatusOutcome(c) : c \in {200, 204, 500}}
        \cup {ExcOutcome("ConnectError"), ExcOutcome("TimeoutException")}

NextAudit ==
    \E r \in Requests :
        \/ \E body \in AuditEnvelopes : handle_audit_event(r, body)
        \/ \E o \in StateReplies, applied \in BOOLEAN : save_audit_entry(r, o, applied)
        \/ \E id \in AskedIds : get_audit_entry_by_id(r, id)
        \/ \E o \in StateReplies : get_audit_entry(r, o)

\* ------------------------------------------- from a fired job to the hub

\* the body of the job callback: the data the job was stored with
JobBody(job) ==
    [B0 EXCEPT !.taskId = job.task_id, !.userId = job.user_id, !.title = job.title]

\* the scheduler fires job n: POST /job/{n} with the job's data, and the
\* ingress runs up to its await of publish_reminder_triggered
job_fires(r, n) ==
    /\ ~IsNone(jobs[n])
    /\ handle_job_callback(r, JobBody(Val(jobs[n])))

\* data.userId of an envelope as the dispatcher reads it
UserKey(v) ==
    CASE v \in {JMissing, JNull} -> "missing"
      [] v = JStr("") -> "empty"
      [] OTHER -> v[2]

\* the request body of POST /events/task for reminder.triggered event e
ReminderBody(e) == Body("object", Some(e.type), "object", UserKey(e.userId))

\* The bus delivers the h-th reminder.triggered event it accepted to the
\* dispatcher's ingress, which runs up to its first suspension in a send.
deliver_reminder_triggered(h) ==
    /\ h <= Len(reminder_events)
    /\ handle_task_event(h, ReminderBody(reminder_events[h]))

\* Tasks of user A and user B with a reminder in the future are created, the
\* scheduler stores their jobs and fires them, and the bus accepts or refuses
\* the reminder event; two websockets of user A come and go meanwhile.
ReminderCreated == {[B0 EXCEPT !.reminderAt = JInt(2), !.userId = JStr(u)] : u \in Users}

NextReminder ==
    \/ \E c \in ChannelConns : websocket_endpoint(c, "tokA")
    \/ \E c \in ChannelConns : connect(c, TRUE)
    \/ \E c \in ChannelConns : established(c, TRUE)
    \/ \E c \in ChannelConns : receive(c, "disconnect")
    \/ \E r \in Requests :
          \/ \E b \in ReminderCreated : reminder_handle_task_created(r, b)
          \/ \E n \in JobNames : job_fires(r, n)
          \/ \E o \in PipelineReplies, applied \in BOOLEAN :
                \/ schedule_reminder(r, o, applied)
                \/ publish_reminder_triggered(r, o, applied)
    \/ \E h \in Handlers : deliver_reminder_triggered(h)
    \/ \E h \in Handlers, ok \in BOOLEAN : send_json(h, ok)

\* the bus delivers every event it accepted, and a send a broadcast is
\* suspended in completes or raises
FairReminder ==
    \A h \in Handlers :
        /\ WF_vars(deliver_reminder_triggered(h))
        /\ WF_vars(\E ok \in BOOLEAN : send_json(h, ok))

\* ------------------------------------------------ the in-memory task manager
\* src/src: the functions of task_manager.py over the task list and the id
\* counter of the storage module, and the TaskStore class of storage.py, which
\* holds a list and a counter of its own

MaxTasks == 3

Stores == {"module", "TaskStore"}

\* the sentinel of update_task: "parameter not provided"
_UNSET == <<"_UNSET", "object">>

\* arguments of the calls: None or a string
TitleArgs == {None, Some(""), Some("  "), Some("A"), Some(" B ")}
DescriptionArgs == {None, Some("d")}
\* task ids asked for, MaxTasks + 1 never assigned
IdArgs == 1..(MaxTasks + 1)

\* str.strip()
strip(s) ==
    CASE s = "  " -> ""
      [] s = " B " -> "B"
      [] OTHER -> s

Task(id, title, description, completed, created_at) ==
    [id |-> id, title |-> title, description |-> description,
     completed |-> completed, created_at |-> created_at]

Called(name, task_id, title, description, raised) ==
    [name |-> name, task_id |-> task_id, title |-> title,
     description |-> description, raised |-> raised]

NothingCalled == Called("none", 0, _UNSET, _UNSET, FALSE)

\* "for t in _tasks: if t.id == task_id: task = t; break": the place of the
\* first task with the id, 0 for "task is None"
find(tasks, task_id) ==
    LET hits == {i \in DOMAIN tasks : tasks[i].id = task_id}
    IN  IF hits = {} THEN 0 ELSE CHOOSE i \in hits : \A j \in hits : i <= j

\* "_tasks.remove(task)" for the task found at place i
remove(tasks, i) == SubSeq(tasks, 1, i - 1) \o SubSeq(tasks, i + 1, Len(tasks))

\* the title check of add_task: "title is None or not title.strip()"
TitleRequired(title) == IsNone(title) \/ strip(Val(title)) = ""

\* _generate_task_id of the storage module: the counter after the call, which
\* is also the id it returns
_generate_task_id(counter) == counter + 1

\* TaskStore.add_task: "self._task_id_counter += 1"
TaskStore_task_id_counter_kept(counter) == IF counter = 0 THEN 1 ELSE counter
TaskStore_task_id_counter(counter) == counter + 1

\* datetime.now(): the clock has advanced at every task added
now == Len(added) + 1

\* a call that raised ValueError: nothing but the record of the call changes
raise_ValueError(name, task_id, title, description) ==
    /\ last_call' = Called(name, task_id, title, description, TRUE)
    /\ UNCHANGED <<_tasks, _task_id_counter, added>>

add_task(title, description) ==
    /\ storage = "module"
    /\ IF TitleRequired(title)
       THEN raise_ValueError("add_task", 0, title, description)
       ELSE LET task_id == _generate_task_id(_task_id_counter)
            IN  /\ Len(added) < MaxTasks
                /\ _task_id_counter' = task_id
                /\ _tasks' = Append(_tasks, Task(task_id, strip(Val(title)), description,
                                                 FALSE, now))
                /\ added' = Append(added, task_id)
                /\ last_call' = Called("add_task", task_id, title, description, FALSE)
    /\ UNCHANGED <<storage, todoVars, pubVars, hubVars, svcVars>>

delete_task(task_id) ==
    LET i == find(_tasks, task_id)
    IN  /\ storage = "module"
        /\ IF i = 0
           THEN raise_ValueError("delete_task", task_id, _UNSET, _UNSET)
           ELSE /\ _tasks' = remove(_tasks, i)
                /\ last_call' = Called("delete_task", task_id, _UNSET, _UNSET, FALSE)
                /\ UNCHANGED <<_task_id_counter, added>>
        /\ UNCHANGED <<storage, todoVars, pubVars, hubVars, svcVars>>

toggle_task_completion(task_id) ==
    LET i == find(_tasks, task_id)
    IN  /\ storage = "module"
        /\ IF i = 0
           THEN raise_ValueError("toggle_task_completion", task_id, _UNSET, _UNSET)
           ELSE /\ _tasks' = [_tasks EXCEPT ![i].completed = ~@]
                /\ last_call' = Called("toggle_task_completion", task_id, _UNSET, _UNSET,
                                       FALSE)
                /\ UNCHANGED <<_task_id_counter, added>>
        /\ UNCHANGED <<storage, todoVars, pubVars, hubVars, svcVars>>

\* VALIDATION 3 of update_task, for a title that was provided: the list as the
\* statement leaves it, and whether it raised
SetTitle_before_check(tasks, i, title) ==
    IF IsNone(title)
    THEN [tasks |-> tasks, raised |-> TRUE]
    ELSE [tasks |-> [tasks EXCEPT ![i].title = strip(Val(title))],
          raised |-> strip(Val(title)) = ""]
SetTitle(tasks, i, title) ==
    IF IsNone(title)
    THEN [tasks |-> tasks, raised |-> TRUE]
    ELSE IF strip(Val(title)) = ""
         THEN [tasks |-> tasks, raised |-> TRUE]
         ELSE [tasks |-> [tasks EXCEPT ![i].title = strip(Val(title))], raised |-> FALSE]

update_task(task_id, title, description) ==
    LET i == find(_tasks, task_id)
        titled == IF title = _UNSET THEN [tasks |-> _tasks, raised |-> FALSE]
                  ELSE SetTitle(_tasks, i, title)
        described == IF description = _UNSET THEN titled.tasks
                     ELSE [titled.tasks EXCEPT ![i].description = description]
    IN  /\ storage = "module"
        /\ IF (title = _UNSET /\ description = _UNSET) \/ i = 0
           THEN raise_ValueError("update_task", task_id, title, description)
           ELSE IF titled.raised
           THEN /\ _tasks' = titled.tasks
                /\ last_call' = Called("update_task", task_id, title, description, TRUE)
                /\ UNCHANGED <<_task_id_counter, added>>
           ELSE /\ _tasks' = described
                /\ last_call' = Called("update_task", task_id, title, description, FALSE)
                /\ UNCHANGED <<_task_id_counter, added>>
        /\ UNCHANGED <<storage, todoVars, pubVars, hubVars, svcVars>>

TaskStore_add_task(title, description) ==
    /\ storage = "TaskStore"
    /\ IF TitleRequired(title)
       THEN raise_ValueError("add_task", 0, title, description)
       ELSE /\ Len(added) < MaxTasks
            /\ _task_id_counter' = TaskStore_task_id_counter(_task_id_counter)
            /\ _tasks' = Append(_tasks, Task(_task_id_counter', strip(Val(title)),
                                             description, FALSE, now))
            /\ added' = Append(added, _task_id_counter')
            /\ last_call' = Called("add_task", _task_id_counter', title, description, FALSE)
    /\ UNCHANGED <<storage, todoVars, pubVars, hubVars, svcVars>>

TaskStore_delete_task(task_id) ==
    LET i == find(_tasks, task_id)
    IN  /\ storage = "TaskStore"
        /\ IF i = 0
           THEN raise_ValueError("delete_task", task_id, _UNSET, _UNSET)
           ELSE /\ _tasks' = remove(_tasks, i)
                /\ last_call' = Called("delete_task", task_id, _UNSET, _UNSET, FALSE)
                /\ UNCHANGED <<_task_id_counter, added>>
        /\ UNCHANGED <<storage, todoVars, pubVars, hubVars, svcVars>>

InitStorage ==
    /\ _tasks = <<>>
    /\ _task_id_counter = 0
    /\ added = <<>>
    /\ last_call = NothingCalled

NextTaskManager ==
    \/ \E t \in TitleArgs, d \in DescriptionArgs : add_task(t, d)
    \/ \E i \in IdArgs : delete_task(i)
    \/ \E i \in IdArgs : toggle_task_completion(i)
    \/ \E i \in IdArgs, t \in TitleArgs \cup {_UNSET}, d \in DescriptionArgs \cup {_UNSET} :
          update_task(i, t, d)
    \/ \E t \in TitleArgs, d \in DescriptionArgs : TaskStore_add_task(t, d)
    \/ \E i \in IdArgs : TaskStore_delete_task(i)

Init == InitBackend /\ InitHub /\ InitConsumers /\ InitStorage /\ storage = "module"

\* the hub and the dispatcher run with the publisher as deployed, with
\* EVENTS_ENABLED not set
InitEnabled == Init /\ IsNone(EVENTS_ENABLED)

Spec == Init /\ [][Next]_vars

SpecHub == InitEnabled /\ [][NextHub]_vars

SpecDispatch == InitEnabled /\ [][NextDispatch]_vars

SpecChannel == InitEnabled /\ [][NextChannel]_vars

SpecConsumers == InitEnabled /\ [][NextConsumers]_vars

SpecPipeline == InitEnabled /\ [][NextPipeline]_vars

SpecRecurring == InitEnabled /\ [][NextRecurring]_vars

SpecAudit == InitEnabled /\ [][NextAudit]_vars

SpecReminder == InitEnabled /\ [][NextReminder]_vars /\ FairReminder

InitTaskManager ==
    /\ InitBackend /\ IsNone(EVENTS_ENABLED)
    /\ InitHub /\ InitConsumers
    /\ InitStorage /\ storage \in Stores

SpecTaskManager == InitTaskManager /\ [][NextTaskManager]_vars


\* ======================= properties of the publisher =======================

PostOutcomes(tr) == [i \in 1..Len(Posts(tr)) |-> Posts(tr)[i].outcome]
SleepDelays(tr) == [i \in 1..Len(Sleeps(tr)) |-> Sleeps(tr)[i].delay]
Kinds(tr) == [i \in 1..Len(tr) |-> tr[i].kind]

AllPostsAre(S) ==
    /\ Len(Posts(pub_trace)) >= 1
    /\ \A i \in 1..Len(Posts(pub_trace)) : Posts(pub_trace)[i].outcome \in S

ConnectivityFailures == {ExcOutcome("ConnectError"), ExcOutcome("TimeoutException")}

\* C1: a publish call whose every attempt is answered 500 makes exactly three
\* posts, sleeps 0.5 s, 1 s and 2 s (one sleep after each failed post), never
\* makes a fourth post, and returns False.
C1_Exhausted500 ==
    AllPostsAre({StatusOutcome(500)}) =>
        /\ Len(Posts(pub_trace)) <= 3
        /\ pub_pc = "returned" =>
              /\ Kinds(pub_trace) = <<"post", "sleep", "post", "sleep", "post", "sleep">>
              /\ SleepDelays(pub_trace) = <<500, 1000, 2000>>
              /\ pub_result = FALSE
        /\ pub_pc = "attempt" => Len(Posts(pub_trace)) < 3

C1_Witness ==
    /\ pub_pc = "returned"
    /\ PostOutcomes(pub_trace) = <<StatusOutcome(500), StatusOutcome(500), StatusOutcome(500)>>

\* C2: a publish call answered 500, 500, 200 makes exactly three posts, sleeps
\* 0.5 s after the first and 1 s after the second, does not sleep after the
\* successful post, and returns True.
C2_SucceedsOnThird ==
    PostOutcomes(pub_trace) = <<StatusOutcome(500), StatusOutcome(500), StatusOutcome(200)>> =>
        /\ pub_pc = "returned"
        /\ pub_result = TRUE
        /\ Kinds(pub_trace) = <<"post", "sleep", "post", "sleep", "post">>
        /\ SleepDelays(pub_trace) = <<500, 1000>>

C2_Witness ==
    /\ pub_pc = "returned"
    /\ pub_result = TRUE
    /\ Len(Posts(pub_trace)) = 3
    /\ Posts(pub_trace)[1].outcome = StatusOutcome(500)
    /\ Posts(pub_trace)[3].outcome = StatusOutcome(200)

Is4xx(o) == o.kind = "status" /\ o.code >= 400 /\ o.code <= 499

\* C3: a publish call whose first post is answered 4xx has returned False with
\* that one post, no sleep and no further post.
C3_ClientErrorFailsAtOnce ==
    (Len(pub_trace) >= 1 /\ Is4xx(pub_trace[1].outcome)) =>
        /\ pub_pc = "returned"
        /\ pub_result = FALSE
        /\ Kinds(pub_trace) = <<"post">>

C3_Witness ==
    /\ pub_pc = "returned"
    /\ Len(pub_trace) = 1
    /\ pub_trace[1].outcome = StatusOutcome(400)

\* C4: a publish call whose every attempt fails with a connection error or a
\* timeout makes exactly three posts, sleeps min(2^attempt * 0.5 s, 10 s)
\* between consecutive posts (0.5 s, then 1 s) and not after the last, and
\* returns False.
C4_ConnectivityExhausted ==
    AllPostsAre(ConnectivityFailures) =>
        /\ Len(Posts(pub_trace)) <= 3
        /\ pub_pc = "attempt" => Len(Posts(pub_trace)) < 3
        /\ pub_pc = "returned" =>
              /\ Kinds(pub_trace) = <<"post", "sleep", "post", "sleep", "post">>
              /\ SleepDelays(pub_trace) = <<Min(Pow2(0) * 500, 10000), Min(Pow2(1) * 500, 10000)>>
              /\ SleepDelays(pub_trace) = <<500, 1000>>
              /\ pub_result = FALSE

C4_Witness ==
    /\ pub_pc = "returned"
    /\ PostOutcomes(pub_trace) =
          <<ExcOutcome("ConnectError"), ExcOutcome("TimeoutException"), ExcOutcome("ConnectError")>>

\* ====================== properties of the todo service ======================

\* the mutation of the call in progress is in the committed table, and no
\* other row differs from what it was when the call started
MutationCommitted ==
    /\ CASE op.kind = "create" ->
              /\ op.id \in DOMAIN db
              /\ db[op.id] = Row(op.user, op.title, "active", op.reminder_at)
         [] op.kind = "update" ->
              /\ op.id \in DOMAIN db
              /\ db[op.id] = Row(op.user, op.title, op.status, op.reminder_at)
         [] op.kind = "delete" ->
              /\ op.id \notin DOMAIN db
              /\ op.id \in DOMAIN db_before
    /\ \A i \in (DOMAIN db_before \cup DOMAIN db) \ {op.id} :
          i \in DOMAIN db /\ i \in DOMAIN db_before /\ db[i] = db_before[i]

\* C5: in create_todo, update_todo and delete_todo the mutation is committed
\* before the publish call starts, stays committed while it runs and after it
\* ends, whether it returned True, returned False or raised, and the call
\* then returns its normal result.
C5_PublishNeverUndoesMutation ==
    /\ (op_pc = "publishing" \/ pub_pc # "idle") => MutationCommitted
    /\ (op_pc = "done" /\ op_pub # "none") =>
          /\ MutationCommitted
          /\ op_result = NormalResult

C5_Witness ==
    /\ op_pc = "done"
    /\ op.kind = "update"
    /\ op_pub = "false"
    /\ db # db_before


\* ======================== properties of the dispatcher ========================

UserIdPresent(body) == body.json = "object" /\ body.data = "object" /\ body.userId # "missing"

\* what the claim says of the hub call of request h: one call, for data.userId,
\* with {type: envelope.type, data: envelope.data}
CalledOnceFor(h) ==
    /\ ev[h].called = 1
    /\ ev[h].user = ev[h].body.userId
    /\ ev[h].msg = [type |-> ev[h].body.type, data |-> ev[h].body.data,
                    userId |-> ev[h].body.userId]

Acked(h) == ev[h].status = IF ev[h].pc = "done" THEN 200 ELSE 0

\* C6 as stated: POST /events/task answers 200 to every request, calls the hub
\* broadcast exactly once whenever data.userId is present, and never when it
\* is missing.
C6_BroadcastWheneverPresent ==
    \A h \in Handlers : ev[h].pc # "idle" =>
        /\ Acked(h)
        /\ IF UserIdPresent(ev[h].body) THEN CalledOnceFor(h) ELSE ev[h].called = 0

\* C6, amended: POST /events/task answers 200 to every request, an unparsable
\* body and a raising broadcast included; it calls the hub broadcast exactly
\* once, for data.userId with {type: envelope.type, data: envelope.data}, when
\* data.userId is present and truthy, and makes no call when data.userId is
\* missing or falsy (the empty string).
C6_AcksAndBroadcastsTruthyUser ==
    \A h \in Handlers : ev[h].pc # "idle" =>
        /\ Acked(h)
        /\ IF UserIdPresent(ev[h].body) /\ Truthy(ev[h].body.userId)
           THEN CalledOnceFor(h)
           ELSE ev[h].called = 0

C6_Witness ==
    \E h \in Handlers :
        /\ ev[h].pc = "done"
        /\ ev[h].status = 200
        /\ ev[h].called = 1
        /\ ev[h].raised = "RuntimeError"

\* ============================ properties of the hub ============================

Broadcast(h) == ev[h].called = 1 /\ ev[h].user \in Users
Finished(h) == Broadcast(h) /\ ev[h].pc = "done"

\* a broadcast the registry of whose user no other task changed while it ran
Undisturbed(h) == ~ev[h].it_mutated

\* An undisturbed broadcast does not raise, sends exactly once to each
\* connection of the user and to no other, and leaves no connection whose send
\* raised registered.
UndisturbedBroadcastServesAll ==
    \A h \in Handlers : (Finished(h) /\ Undisturbed(h)) =>
        /\ ev[h].raised = "none"
        /\ \A c \in Conns : ev[h].attempts[c] = IF c \in ev[h].start THEN 1 ELSE 0
        /\ ev[h].dead \cap ConnsOf(active_connections, ev[h].user) = {}

\* While no broadcast has been disturbed, no broadcast sends on a connection
\* whose send raised in an earlier one.
UndisturbedRunsSkipFailed ==
    (\A g \in Handlers : Undisturbed(g)) =>
        \A h \in Handlers : \A c \in ev[h].failed_before : ev[h].attempts[c] = 0

\* no broadcast for one user ever sends on a websocket of another
NoCrossUserSend ==
    \A h \in Handlers, c \in Conns : ev[h].attempts[c] > 0 => ws[c].user = ev[h].user

\* C8: broadcast_to_user(A, m) sends m exactly once to each connection
\* registered for A and nothing to any other connection; with no connection
\* registered for A it does nothing and does not raise.
C8_SendsOnceToEachOfUser ==
    \A h \in Handlers : Finished(h) =>
        /\ \A c \in Conns : ev[h].attempts[c] = IF c \in ev[h].start THEN 1 ELSE 0
        /\ ev[h].start = {} => ev[h].raised = "none"

\* C9: a connection whose send raises does not stop the broadcast: every
\* connection of the user is still sent the message, the failing ones are no
\* longer registered once the broadcast has ended, and a broadcast that starts
\* later makes no send attempt on them.
C9_FailedSendIsPruned ==
    \A h \in Handlers : Finished(h) =>
        /\ ev[h].dead # {} => \A c \in ev[h].start : ev[h].attempts[c] = 1
        /\ ev[h].dead \cap ConnsOf(active_connections, ev[h].user) = {}
        /\ \A c \in ev[h].failed_before : ev[h].attempts[c] = 0

\* C10: a connect or disconnect for user u that runs while a broadcast to u is
\* suspended in a send does not make the broadcast fail: it ends without
\* raising, and every connection of u registered from its start to its end
\* has been sent the message.
C10_BroadcastSurvivesRegistryChange ==
    \A h \in Handlers : Finished(h) =>
        /\ ev[h].raised = "none"
        /\ \A c \in ev[h].start \cap ConnsOf(active_connections, ev[h].user) :
              ws[c].pc # "closed" => ev[h].attempts[c] >= 1

\* ========================= properties of the consumers =========================

Done(r) == rq[r].pc = "done"

\* a downstream call of request r that failed: the helper that made it
\* returned False (or the default title, for get_task_title)
FailedCall(r) == \E i \in 1 .. Len(rq[r].calls) : ~rq[r].calls[i].result

\* C7: every bus ingress of the audit, recurring and reminder services, the
\* job callback included, answers 200 for every request body and every
\* outcome of its downstream calls.
C7_IngressesAlwaysAck ==
    \A r \in Requests : rq[r].status = IF Done(r) THEN 200 ELSE 0

C7_Witness ==
    \E r1, r2 \in Requests :
        /\ Done(r1) /\ FailedCall(r1) /\ rq[r1].status = 200
        /\ Done(r2) /\ rq[r2].exc # "none" /\ rq[r2].status = 200

\* ----------------------------------------------------- C11: handler's end

\* connections registered under any user
Registered == UNION {active_connections[u] : u \in Keys(active_connections)}

\* the websocket handler of c has ended
Ended(c) == ws[c].pc = "closed"

\* C11: once the websocket handler of a connection has ended (client
\* disconnect, receive error or failed send), the connection is in no user's
\* set, and a broadcast that started after that end neither sends nor has sent
\* to it.
C11_EndedConnectionIsNoTarget ==
    \A c \in Conns :
        Ended(c) =>
            /\ c \notin Registered
            /\ \A h \in Handlers :
                  c \in ev[h].closed_before => ev[h].attempts[c] = 0 /\ ev[h].cur # c

\* a greeted connection of a user ended, and a later broadcast to that user
\* has run to its end and served another connection
C11_Witness ==
    \E c \in Conns, h \in Handlers :
        /\ Ended(c) /\ ws[c].est = 1
        /\ c \in ev[h].closed_before
        /\ ev[h].user = ws[c].user
        /\ Finished(h)
        /\ \E d \in Conns : ev[h].attempts[d] > 0

\* ------------------------------------------------------- C12: handshake

RegisteredUnder(c, u) == u \in Keys(active_connections) /\ c \in active_connections[u]

\* the handler of c is past manager.connect and has not ended
Live(c) == ws[c].pc \in {"greeting", "open", "ponging"}

\* C12: a connection whose credential does not validate is closed with code
\* 4001, is never registered and is never sent connection.established; a
\* connection is registered only under the userId its credential resolves to,
\* it is registered from the moment accept() returns (until its handler ends
\* or a broadcast prunes it), and it is sent connection.established exactly
\* once, before anything else.
C12_RegisteredIffValidated ==
    \A c \in Conns :
        LET user_id == get_user_from_token(ws[c].token) IN
        /\ ws[c].pc # "new" /\ IsNone(user_id) =>
              /\ ws[c].pc = "rejected" /\ ws[c].close = 4001
              /\ ws[c].est = 0
              /\ c \notin Registered
        /\ ws[c].pc = "rejected" => IsNone(user_id)
        /\ \A u \in Users : RegisteredUnder(c, u) => user_id = Some(u) /\ Live(c)
        /\ Live(c) /\ c \notin failed => RegisteredUnder(c, Val(user_id))
        /\ ws[c].est <= 1
        /\ ws[c].pc \in {"open", "ponging"} => ws[c].est = 1
        /\ ws[c].est = 1 => ~IsNone(user_id) /\ ws[c].user = Val(user_id)

\* one connection was turned away with its bad credential, and another is
\* registered under the user of its credential and greeted
C12_Witness ==
    \E b, c \in Conns :
        /\ ws[b].pc = "rejected" /\ ws[b].token = "bad"
        /\ ws[c].token = "tokB" /\ RegisteredUnder(c, "B") /\ ws[c].est = 1

\* ------------------------------------------------- C13: inbound messages

\* inbound messages that are not a ping
MalformedInbound == {"not_json", "not_object", "other_object"}

\* after reading an inbound message m that is not a ping, the handler of c is
\* back in receive_text() without having sent anything, and c is registered
\* unless a broadcast pruned it
IgnoredAfter(c, m) ==
    ws[c].last = m =>
        /\ ws[c].pc = "open"
        /\ c \notin failed => RegisteredUnder(c, ws[c].user)

\* after a ping the handler sends pong, once
PingAnswered(c) ==
    /\ ws[c].pong <= ws[c].inbound
    /\ ws[c].last = "ping" /\ ws[c].pc = "open" => ws[c].pong >= 1

\* text that is no JSON and objects without type ping are ignored, and a ping
\* gets its pong
TextAndObjectsAreIgnored ==
    \A c \in Conns :
        /\ PingAnswered(c)
        /\ \A m \in {"not_json", "other_object"} : IgnoredAfter(c, m)

\* C13: a ping is answered with one pong, and every inbound message that is
\* no valid JSON, no JSON object or an object without type ping is ignored:
\* no reply, the connection stays open and registered.
C13_MalformedInboundIsIgnored ==
    \A c \in Conns :
        /\ PingAnswered(c)
        /\ \A m \in MalformedInbound : IgnoredAfter(c, m)

\* ------------------------------------------------ C14: connection count

\* users asked about: the hub's users and one that never connects
AskedUsers == Users \cup {"C"}

\* C14: get_connection_count() is the number of connections registered
\* under any user, and get_connection_count(u) the number registered under u.
C14_CountsRegistered ==
    /\ get_connection_count(active_connections, None) = Cardinality(Registered)
    /\ \A u \in AskedUsers :
          get_connection_count(active_connections, Some(u))
              = Cardinality({c \in Conns : RegisteredUnder(c, u)})

\* after connects of both users, a disconnect of a greeted connection and a
\* broadcast: two connections are counted, one for each of A and B, and none
\* for a third user
C14_Witness ==
    /\ get_connection_count(active_connections, None) = 2
    /\ get_connection_count(active_connections, Some("A")) = 1
    /\ get_connection_count(active_connections, Some("B")) = 1
    /\ get_connection_count(active_connections, Some("C")) = 0
    /\ \E c \in Conns : Ended(c) /\ ws[c].est = 1
    /\ \E h \in Handlers : Finished(h)

\* ------------------------------------------- reminder scheduler: C15 - C20

\* the calls request r has made to the sidecar and got an answer for
Calls(r) == rq[r].calls
Apis(r) == [i \in 1 .. Len(Calls(r)) |-> Calls(r)[i].api]

\* r handles an envelope with an object for data, of the given kinds
Handles(r, kinds) ==
    rq[r].kind \in kinds /\ rq[r].pc # "idle" /\ ParseError(rq[r].body) = "none"
        /\ rq[r].body.data = "object"

TaskId(r) == dget(Field(rq[r].body, "taskId"))
UserId(r) == dget(Field(rq[r].body, "userId"))

\* a reminder time that is a Unix time after now
Future(v) == IsJInt(v) /\ v[2] - Now > 0

\* s is a prefix of t
Prefix(s, t) == Len(s) <= Len(t) /\ \A i \in 1 .. Len(s) : s[i] = t[i]

\* the call request r waits in, or the last one it made, is a schedule call
\* for the job of its task with the given title and fire time
SchedulesJob(c, r, reminder_at) ==
    /\ c.api = "schedule"
    /\ c.key = JobName(TaskId(r))
    /\ c.arg.task_id = TaskId(r)
    /\ c.arg.user_id = UserId(r)
    /\ c.arg.reminder_at = reminder_at

\* the envelope's change set holds the reminder field
HasReminderField(body) ==
    body.data = "object" /\ body.changes \in {"reminder_at", "reminderAt"}

\* r handles a task.updated envelope whose change set holds the reminder field
UpdateOf(r) ==
    /\ Handles(r, {"reminder.task-updated"})
    /\ UpdatedError(rq[r].body) = "none"
    /\ HasReminderField(rq[r].body)

NewOf(r) == new_reminder(rq[r].body)

\* in the calls of r, every schedule call (made or waited in) comes after a
\* cancel for the same job name that has returned
CancelsBeforeScheduling(r) ==
    /\ \A i \in 1 .. Len(Calls(r)) :
          Apis(r)[i] = "schedule" =>
              \E j \in 1 .. i - 1 :
                  Apis(r)[j] = "cancel" /\ Calls(r)[j].key = Calls(r)[i].key
    /\ rq[r].pc = "schedule" =>
          \E j \in 1 .. Len(Calls(r)) :
              Apis(r)[j] = "cancel" /\ Calls(r)[j].key = rq[r].pending.key

\* the jobs outstanding for task t
JobsOf(t) == {n \in JobNames : ~IsNone(jobs[n]) /\ Val(jobs[n]).task_id = t}
TaskIds == {JInt(1), JInt(2)}

\* every job is stored under the name of its task, so a task has at most one
OneJobPerTask ==
    /\ \A n \in JobNames : ~IsNone(jobs[n]) => Fmt(Val(jobs[n]).task_id) = n
    /\ \A t \in TaskIds : Cardinality(JobsOf(t)) <= 1

\* the step registers a job for request r: its schedule call is answered 200
Registers(r) ==
    /\ rq[r].pc = "schedule"
    /\ rq'[r].pc = "done"
    /\ rq'[r].calls[Len(rq'[r].calls)].reply = StatusOutcome(200)

\* C15 as stated: under any interleaving of the four reminder ingresses a
\* task has at most one outstanding job, and no job is registered for a task
\* while an earlier job of the task is outstanding (not cancelled).
C15_NeverRegistersOverAJob ==
    [][/\ OneJobPerTask'
       /\ \A r \in Requests : Registers(r) => IsNone(jobs[rq[r].pending.key])]_vars

\* C15, as the code has it: under any interleaving of the four reminder
\* ingresses a task has at most one outstanding job, because every job is
\* stored under reminder-{taskId}; and handle_task_updated makes no schedule
\* call before its cancel for the same job has returned.
C15_OneJobAndUpdatesCancelFirst ==
    /\ OneJobPerTask
    /\ \A r \in Requests :
          Handles(r, {"reminder.task-updated"}) => CancelsBeforeScheduling(r)

\* a job is outstanding for task 1 after a task.created and a task.updated
\* for it both had their schedule call accepted
C15_Witness ==
    /\ ~IsNone(jobs["1"])
    /\ \E r1, r2 \in Requests :
          /\ rq[r1].kind = "reminder.task-created" /\ rq[r2].kind = "reminder.task-updated"
          /\ \A r \in {r1, r2} :
                /\ Done(r) /\ Calls(r) # <<>>
                /\ Calls(r)[Len(Calls(r))].api = "schedule"
                /\ Calls(r)[Len(Calls(r))].reply = StatusOutcome(200)

\* C16 as stated: a task.updated whose reminder field has a non-null new
\* time gets a cancel and then a schedule call for reminder-{taskId}.
C16_CancelThenScheduleForAnyNewTime ==
    \A r \in Requests :
        UpdateOf(r) /\ IsJInt(NewOf(r)) /\ Done(r) =>
            /\ Len(Calls(r)) >= 2
            /\ Apis(r)[1] = "cancel"
            /\ SchedulesJob(Calls(r)[Len(Calls(r))], r, NewOf(r))

\* C16: on a task.updated whose reminder field changed, the calls are, in
\* this order and each after the one before has returned: the cancel for
\* reminder-{taskId}, the title fetch, the schedule call. With a new time in
\* the future the schedule call is made for the same job name with the new
\* time, whatever the cancel returned; with a new time that is not in the
\* future no schedule call is made.
C16_CancelThenScheduleForFutureTime ==
    \A r \in Requests :
        UpdateOf(r) =>
            /\ Prefix(Apis(r), <<"cancel", "title", "schedule">>)
            /\ CancelsBeforeScheduling(r)
            /\ rq[r].pc \in {"cancel", "title", "schedule", "done"}
            /\ rq[r].pc = "cancel" => Calls(r) = <<>> /\ rq[r].pending.key = Fmt(TaskId(r))
            /\ rq[r].pc = "title" => Len(Calls(r)) = 1
            /\ rq[r].pc = "schedule" =>
                  Len(Calls(r)) = 2 /\ SchedulesJob(rq[r].pending, r, NewOf(r))
            /\ Len(Calls(r)) >= 1 => Calls(r)[1].key = Fmt(TaskId(r))
            /\ Future(NewOf(r)) /\ Done(r) =>
                  Len(Calls(r)) = 3 /\ SchedulesJob(Calls(r)[3], r, NewOf(r))
            /\ IsJInt(NewOf(r)) /\ ~Future(NewOf(r)) /\ Done(r) =>
                  Apis(r) = <<"cancel", "title">>

\* an update to a future time was handled to its end: its cancel failed and
\* its schedule call was made and accepted
C16_Witness ==
    \E r \in Requests :
        /\ UpdateOf(r) /\ Future(NewOf(r)) /\ Done(r)
        /\ Len(Calls(r)) = 3
        /\ ~Calls(r)[1].result
        /\ Calls(r)[3].result

\* r handles a task.deleted or task.completed envelope that carries a taskId
CancelOf(r) ==
    /\ Handles(r, {"reminder.task-deleted", "reminder.task-completed"})
    /\ PyTruthy(TaskId(r))

\* C18: a task.deleted or task.completed envelope with a taskId gets exactly
\* one call, the cancel for reminder-{taskId}, and no schedule call; the
\* cancel counts as done when the answer is 404.
C18_DeletedAndCompletedCancelOnce ==
    \A r \in Requests :
        CancelOf(r) =>
            /\ Prefix(Apis(r), <<"cancel">>)
            /\ rq[r].pc \in {"cancel", "done"}
            /\ rq[r].pc = "cancel" =>
                  /\ Calls(r) = <<>>
                  /\ rq[r].pending.api = "cancel"
                  /\ rq[r].pending.key = JobName(TaskId(r))
            /\ Done(r) =>
                  /\ Len(Calls(r)) = 1
                  /\ Calls(r)[1].key = JobName(TaskId(r))
                  /\ rq[r].exc = "none"
                  /\ Calls(r)[1].reply \in {StatusOutcome(200), StatusOutcome(404)}
                        => Calls(r)[1].result

\* a task.deleted whose cancel found no job and a task.completed whose cancel
\* was accepted, both handled to their end
C18_Witness ==
    \E r1, r2 \in Requests :
        /\ CancelOf(r1) /\ rq[r1].kind = "reminder.task-deleted" /\ Done(r1)
        /\ Calls(r1)[1].reply = StatusOutcome(404) /\ Calls(r1)[1].result
        /\ CancelOf(r2) /\ rq[r2].kind = "reminder.task-completed" /\ Done(r2)
        /\ Calls(r2)[1].reply = StatusOutcome(200)

\* the reminder time of a task.created envelope
ReminderAt(r) == dget(Field(rq[r].body, "reminderAt"))

\* r handles a task.created envelope that carries taskId and userId and whose
\* reminder time is absent, null or a Unix time
CreatedOf(r) ==
    /\ Handles(r, {"reminder.task-created"})
    /\ PyTruthy(TaskId(r)) /\ PyTruthy(UserId(r))
    /\ ReminderAt(r) = JNull \/ IsJInt(ReminderAt(r))

\* C19: a task.created gets a schedule call exactly when its reminder time
\* is present and later than now; the call is for job reminder-{taskId} and
\* carries taskId, userId, title and the reminder time. Otherwise no call is
\* made.
C19_SchedulesOnlyFutureReminders ==
    \A r \in Requests :
        CreatedOf(r) =>
            LET call == IF Done(r) /\ Calls(r) # <<>> THEN Calls(r)[1] ELSE rq[r].pending
            IN  IF Future(ReminderAt(r))
                THEN /\ \/ rq[r].pc = "schedule" /\ Calls(r) = <<>>
                        \/ Done(r) /\ Len(Calls(r)) = 1
                     /\ SchedulesJob(call, r, ReminderAt(r))
                     /\ call.arg.title = dget(Field(rq[r].body, "title"))
                ELSE Done(r) /\ Calls(r) = <<>>

\* one task.created with a future reminder had its job registered, and one
\* whose reminder time is now was handled without a call
C19_Witness ==
    \E r1, r2 \in Requests :
        /\ CreatedOf(r1) /\ Future(ReminderAt(r1)) /\ Done(r1)
        /\ Calls(r1)[1].reply = StatusOutcome(200)
        /\ jobs[JobName(TaskId(r1))] = Some(Calls(r1)[1].arg)
        /\ CreatedOf(r2) /\ ReminderAt(r2) = JInt(Now) /\ Done(r2)

\* r handles a task.updated envelope that raises nothing
UpdatedOf(r) ==
    /\ rq[r].kind = "reminder.task-updated" /\ rq[r].pc # "idle"
    /\ UpdatedError(rq[r].body) = "none"

\* C20: a task.updated whose reminder field has a null new value gets exactly
\* one call, the cancel for reminder-{taskId}; a task.updated without the
\* reminder field gets no call.
C20_ClearedReminderCancelsOnly ==
    \A r \in Requests :
        UpdatedOf(r) =>
            IF HasReminderField(rq[r].body)
            THEN NewOf(r) = JNull =>
                    /\ Prefix(Apis(r), <<"cancel">>)
                    /\ rq[r].pc \in {"cancel", "done"}
                    /\ rq[r].pc = "cancel" => rq[r].pending.key = JobName(TaskId(r))
                    /\ Done(r) => Len(Calls(r)) = 1 /\ Calls(r)[1].key = JobName(TaskId(r))
            ELSE Done(r) /\ Calls(r) = <<>>

\* one update that cleared the reminder was handled with its one cancel, and
\* one update of other fields without a call
C20_Witness ==
    \E r1, r2 \in Requests :
        /\ UpdatedOf(r1) /\ HasReminderField(rq[r1].body) /\ rq[r1].body.new = JNull
        /\ Done(r1) /\ Apis(r1) = <<"cancel">>
        /\ UpdatedOf(r2) /\ rq[r2].body.changes = "other" /\ Done(r2) /\ Calls(r2) = <<>>

\* ------------------------------------------------ C17: replacing the job

\* the text update_todo writes for a new reminder time in the future
FutureTexts == {JStr(DateText(Val(t))) : t \in PipelineUpdates}

\* every call r made was accepted by the substrate
AllAccepted(r) ==
    \A i \in 1 .. Len(Calls(r)) :
        Calls(r)[i].reply = StatusOutcome(200) /\ Calls(r)[i].result

\* C17: when the task.updated event that update_todo published for a new
\* reminder time in the future has been handled, and the substrate accepted
\* every call, the job reminder-{taskId} was cancelled and then registered
\* again.
C17_ReminderJobIsReplaced ==
    \A r \in Requests :
        /\ UpdateOf(r) /\ Done(r)
        /\ NewOf(r) \in FutureTexts
        /\ AllAccepted(r)
        => /\ Len(Calls(r)) = 3
           /\ Apis(r)[1] = "cancel"
           /\ Calls(r)[3].api = "schedule"
           /\ Calls(r)[3].key = JobName(TaskId(r))

\* ===================== properties of the reminder path =====================

\* the dispatcher request that was handed the i-th accepted reminder event
Dispatched(i) == ev[i].pc # "idle" /\ ev[i].body.type = Some("reminder.triggered")

\* a job callback publishes once, to reminder-events, the event built from
\* the data its job was stored with
CallbackPublishesJobData ==
    \A r \in Requests : (Handles(r, {"reminder.job"}) /\ Done(r)) =>
        /\ Apis(r) = <<"publish">>
        /\ Calls(r)[1].key = "reminder-events"
        /\ Calls(r)[1].arg.type = "reminder.triggered"
        /\ Calls(r)[1].arg.taskId = JInt(1)
        /\ Calls(r)[1].arg.title = JStr("t1")
        /\ Calls(r)[1].arg.userId \in {JStr(u) : u \in Users}
        /\ Calls(r)[1].arg.userId = rq[r].body.userId
        /\ Calls(r)[1].arg.triggeredAt = Now

\* every reminder event the bus accepted is handed to the hub: the dispatcher
\* ends having called the hub's broadcast once, for the event's user, with
\* the reminder.triggered message
ReminderReachesHub ==
    \A i \in Handlers :
        (i <= Len(reminder_events)) ~>
            /\ Dispatched(i) /\ ev[i].pc = "done"
            /\ ev[i].called = 1
            /\ JStr(ev[i].user) = reminder_events[i].userId
            /\ ev[i].msg.type = Some("reminder.triggered")

\* a reminder broadcast that no registry change disturbed has sent the event
\* to every connection its user had
UndisturbedReminderServesAll ==
    \A i \in Handlers : (Dispatched(i) /\ ev[i].pc = "done" /\ Undisturbed(i)) =>
        /\ ev[i].raised = "none"
        /\ \A c \in ev[i].start : ev[i].attempts[c] = 1

\* C21: the job callback publishes one reminder.triggered event with the
\* job's taskId, userId and title, and once the dispatcher has handled that
\* event the hub has sent it to every live connection of userId.
C21_FiredReminderReachesLiveConnections ==
    /\ CallbackPublishesJobData
    /\ \A i \in Handlers : (Dispatched(i) /\ ev[i].pc = "done") =>
          /\ ev[i].called = 1
          /\ JStr(ev[i].user) = reminder_events[i].userId
          /\ \A c \in ev[i].start \cap ConnsOf(active_connections, ev[i].user) :
                Live(c) => ev[i].attempts[c] >= 1

\* ======================= properties of the audit trail =======================

\* request r handled an envelope and the state store took its entry
Stored(r) ==
    /\ Handles(r, {"audit"}) /\ Done(r)
    /\ Len(Calls(r)) = 1 /\ Calls(r)[1].result

\* request r asked for an entry and has its answer
Asked(r) == rq[r].kind = "audit.get" /\ Done(r)

\* C22: two envelopes of one task with different ids, both stored, leave two
\* distinct entries in the state store, each under its own entry id; a get
\* answers 200 only with the entry of the id asked for, answers 404 for an id
\* under which nothing is stored, whatever the state store replies, and never
\* raises.
C22_OneEntryPerEnvelopeId ==
    /\ \A r1, r2 \in Requests :
          /\ Stored(r1) /\ Stored(r2)
          /\ TaskId(r1) = TaskId(r2)
          /\ IsJStr(rq[r1].body.id) /\ IsJStr(rq[r2].body.id)
          /\ rq[r1].body.id # rq[r2].body.id
          => LET k1 == Calls(r1)[1].key
                 k2 == Calls(r2)[1].key
             IN  /\ k1 # k2
                 /\ {k1, k2} \subseteq DOMAIN statestore
                 /\ statestore[k1].id = k1 /\ statestore[k2].id = k2
                 /\ statestore[k1] # statestore[k2]
    /\ \A r \in Requests : Asked(r) =>
          LET call == Calls(r)[1] IN
          /\ rq[r].exc = "none"
          /\ rq[r].status \in {200, 404}
          /\ call.key \notin DOMAIN statestore => rq[r].status = 404
          /\ call.reply # StatusOutcome(200) => rq[r].status = 404
          /\ rq[r].status = 200 => Val(call.arg).id = call.key

\* two envelopes of task 1 with ids e1 and e2 have both been stored
C22_Witness ==
    /\ Stored(1) /\ Stored(2)
    /\ rq[1].body.id = JStr("e1") /\ rq[2].body.id = JStr("e2")
    /\ TaskId(1) = JInt(1) /\ TaskId(2) = JInt(1)
    /\ Cardinality(DOMAIN statestore) = 2

\* C23: the audit trail is append-only: a value stored under a key is never
\* changed or removed by an envelope handled later.
C23_AuditTrailIsAppendOnly ==
    [][\A k \in DOMAIN statestore :
          k \in DOMAIN statestore' /\ statestore'[k] = statestore[k]]_vars

\* ==================== properties of the recurring service ====================

\* request r handled the completion of a recurring task and fetched the task
FetchedOf(r) ==
    /\ Handles(r, {"recurring"}) /\ Done(r)
    /\ Len(Calls(r)) >= 1
    /\ Calls(r)[1].api = "get" /\ Calls(r)[1].result

\* the task request r fetched, the date its next occurrence is computed from
\* and the next occurrence
TaskOf(r) == Calls(r)[1].arg
BaseOf(r) == IF TaskOf(r).due_date = JNull THEN Today ELSE TaskOf(r).due_date[2]
NextOf(r) == calculate_next_occurrence(rq[r].body.rule, rq[r].body.interval[2], BaseOf(r))

\* the recurrence of the task r fetched ends before its next occurrence
EndsBeforeNext(r) ==
    /\ TaskOf(r).end_date # JNull
    /\ Before(TaskOf(r).end_date[2], NextOf(r))

\* the due date and the end date of the task r fetched are written alike, and
\* a task without a due date has an end date without a UTC offset
WrittenAlike(r) ==
    TaskOf(r).end_date[3] = (IF TaskOf(r).due_date = JNull THEN "" ELSE TaskOf(r).due_date[3])

\* when the recurrence ends before the next occurrence, and the dates are
\* written alike, no task is created and the handler answers 200
EndedRecurrenceCreatesNothing ==
    \A r \in Requests : (FetchedOf(r) /\ EndsBeforeNext(r) /\ WrittenAlike(r)) =>
        Apis(r) = <<"get">> /\ rq[r].status = 200

\* C24: when the recurrence end date of a completed recurring task is earlier
\* than its next occurrence, no task-creation request is made and the handler
\* answers 200, with or without a due date on the original task.
C24_EndedRecurrenceCreatesNothing ==
    \A r \in Requests : (FetchedOf(r) /\ EndsBeforeNext(r)) =>
        Apis(r) = <<"get">> /\ rq[r].status = 200

RECURSIVE DaysBeforeYear(_)
\* days from 1 January 2000 to 1 January of year y
DaysBeforeYear(y) ==
    IF y <= 2000 THEN 0
    ELSE DaysBeforeYear(y - 1) + (IF Leap(y - 1) THEN 366 ELSE 365)

RECURSIVE DaysBeforeMonth(_, _)
\* days from 1 January of year y to the first of its month m
DaysBeforeMonth(y, m) ==
    IF m = 1 THEN 0 ELSE DaysBeforeMonth(y, m - 1) + DaysIn(y, m - 1)

\* the number of the day d, counted from 1 January 2000
Ordinal(d) == DaysBeforeYear(d[1]) + DaysBeforeMonth(d[1], d[2]) + d[3]

\* request r asked for the creation of the next occurrence
CreatesNext(r) == Len(Calls(r)) >= 2 /\ Calls(r)[2].api = "create" /\ Handles(r, {"recurring"})

\* the due date of the task r asked to create, and the rule and interval of
\* the completed task
NextDue(r) == Calls(r)[2].arg.due_date[2]
Rule(r) == rq[r].body.rule[2]
Interval(r) == rq[r].body.interval[2]

\* the months from January of year 0 to the month of d
MonthIndex(d) == d[1] * 12 + d[2] - 1

\* C25: the next occurrence is the base date plus interval days for daily,
\* plus 7 * interval days for weekly, and for monthly the same day of the
\* month interval calendar months later, or that month's last day when it
\* has no such day.
C25_NextOccurrenceByRule ==
    \A r \in Requests : CreatesNext(r) =>
        LET base == BaseOf(r)
            next == NextDue(r)
        IN  CASE Rule(r) = "daily" -> Ordinal(next) = Ordinal(base) + Interval(r)
              [] Rule(r) = "weekly" -> Ordinal(next) = Ordinal(base) + 7 * Interval(r)
              [] Rule(r) = "monthly" ->
                    /\ MonthIndex(next) = MonthIndex(base) + Interval(r)
                    /\ next[3] = Min(base[3], DaysIn(next[1], next[2]))
              [] OTHER -> FALSE

\* 31 January 2024 plus one month is 29 February 2024, 31 January 2023 plus
\* one month 28 February 2023, and two weeks are fourteen days
C25_Witness ==
    \E r1, r2 \in Requests :
        /\ CreatesNext(r1) /\ Rule(r1) = "monthly" /\ Interval(r1) = 1
        /\ BaseOf(r1) = <<2024, 1, 31>> /\ NextDue(r1) = <<2024, 2, 29>>
        /\ CreatesNext(r2) /\ Rule(r2) = "weekly" /\ Interval(r2) = 2
        /\ BaseOf(r2) = <<2023, 12, 31>> /\ NextDue(r2) = <<2024, 1, 14>>

\* ===================== properties of the envelopes =====================

\* a publish call is in progress or has returned
Publishing == pub_pc \in {"attempt", "returned"} /\ pub_event # NoEvent

\* C26: every HTTP attempt of one publish call posts the same envelope, with
\* the id and the time the publish_* method gave it.
C26_RetriesReuseTheEnvelope ==
    Publishing =>
        \A i \in 1 .. Len(Posts(pub_trace)) :
            Posts(pub_trace)[i].evt = <<pub_event.id, pub_event.time>>

\* a publish call that posted three times, with two sleeps in between
C26_Witness ==
    /\ Publishing /\ pub_pc = "returned"
    /\ Len(Posts(pub_trace)) = 3 /\ Len(Sleeps(pub_trace)) = 2
    /\ Elapsed(pub_trace) > 0

\* the publisher draws the id of every envelope it builds from uuid4, which
\* is fresh at every draw
PublisherIdsAreFresh ==
    [][(pub_event' # pub_event /\ pub_event' # NoEvent) =>
          (pub_event'.id = next_evt /\ next_evt' > next_evt)]_vars

\* request r is a job callback that has built its reminder.triggered event
Triggers(r) ==
    /\ rq[r].kind = "reminder.job"
    /\ \/ rq[r].pc = "publish"
       \/ Len(Calls(r)) = 1 /\ Calls(r)[1].api = "publish"

\* the event job callback r built
TriggeredBy(r) == IF rq[r].pc = "publish" THEN rq[r].pending.arg ELSE Calls(r)[1].arg

\* C27: two distinct publish operations give their envelopes different ids,
\* also two job callbacks for one task within one second.
C27_EnvelopeIdsAreUnique ==
    \A r1, r2 \in Requests :
        (r1 # r2 /\ Triggers(r1) /\ Triggers(r2)) => TriggeredBy(r1).id # TriggeredBy(r2).id

\* no publish call has contacted the bus or slept, and the one that has
\* returned has returned True
NothingSent ==
    /\ pub_trace = <<>>
    /\ pub_pc # "attempt"
    /\ pub_pc = "returned" => pub_result
    /\ op_pub # "false"

\* C28, as stated: when EVENTS_ENABLED is set to anything but "true", every
\* publish call returns True and makes no HTTP call and no backoff sleep.
C28_AnythingButTrueDisables ==
    (~IsNone(EVENTS_ENABLED) /\ Val(EVENTS_ENABLED) # "true") => NothingSent

\* C28, amended: when the feature flag is disabled, that is when
\* EVENTS_ENABLED is set to a value that is not "true" in any letter case,
\* every publish call returns True and makes no HTTP call and no backoff sleep.
C28_DisabledFlagSkipsTheBus ==
    /\ ~_enabled <=> (~IsNone(EVENTS_ENABLED) /\ lower(Val(EVENTS_ENABLED)) # "true")
    /\ ~_enabled => NothingSent

\* a publish call has returned True with the flag disabled
C28_Witness ==
    /\ EVENTS_ENABLED = Some("false") /\ ~_enabled
    /\ pub_pc = "returned" /\ pub_result /\ pub_event # NoEvent
    /\ pub_trace = <<>>

\* C29: in the in-memory task manager, the successful add_task calls return
\* the ids 1, 2, 3, ... in order, whatever was deleted in between, and no two
\* stored tasks share an id.
C29_IdsSequentialNeverReused ==
    /\ \A k \in DOMAIN added : added[k] = k
    /\ \A i, j \in DOMAIN _tasks : _tasks[i].id = _tasks[j].id => i = j

\* the third task was added after the first two had been deleted
C29_Witness ==
    /\ last_call.name = "add_task" /\ ~last_call.raised /\ last_call.task_id = 3
    /\ Len(added) = 3
    /\ Len(_tasks) = 1 /\ _tasks[1].id = 3

\* C30: a delete_task, toggle_task_completion or update_task call that raises
\* ValueError leaves the task list, every field of every task in it, and the
\* id counter as they were.
C30_ValueErrorLeavesStorageUnchanged ==
    [][(/\ last_call'.raised
        /\ last_call'.name \in {"delete_task", "toggle_task_completion", "update_task"})
       => (_tasks' = _tasks /\ _task_id_counter' = _task_id_counter)]_vars

\* update_task has raised for a whitespace-only title passed with a valid
\* description, on a stored task that has no description
C30_Witness ==
    /\ last_call.name = "update_task" /\ last_call.raised
    /\ last_call.title = Some("  ") /\ last_call.description = Some("d")
    /\ find(_tasks, last_call.task_id) # 0
    /\ IsNone(_tasks[find(_tasks, last_call.task_id)].description)

\* the outcomes _publish retries
ServerFailed(o) == o.kind = "status" /\ o.code >= 500
Unreachable(o) == o.kind = "exc" /\ o.exc \in {"ConnectError", "TimeoutException"}

\* element k of trace tr is the n-th post of the call
PostNumber(tr, k) == Len(Posts(SubSeq(tr, 1, k)))

\* C31, as stated: a publish call sleeps only between two attempts, so a call
\* that has returned has slept once less than it has posted, whatever the
\* failures were.
C31_SleepsOnlyBetweenAttempts ==
    (pub_pc = "returned" /\ pub_trace # <<>>) =>
        /\ IsPost(pub_trace[Len(pub_trace)])
        /\ Len(Sleeps(pub_trace)) = Len(Posts(pub_trace)) - 1

\* C31, amended: a publish call sleeps only right after an attempt that failed
\* with a 5xx response, a connection error or a timeout; after a connection
\* error or a timeout it sleeps exactly when another attempt is left, and after
\* a 5xx response it sleeps always, also after the final attempt.
C31_SleepsFollowRetryableFailures ==
    \A k \in DOMAIN pub_trace :
        LET e == pub_trace[k]
            slept == k < Len(pub_trace) /\ IsSleep(pub_trace[k + 1])
        IN  /\ IsSleep(e) =>
                /\ k > 1 /\ IsPost(pub_trace[k - 1])
                /\ ServerFailed(pub_trace[k - 1].outcome)
                       \/ Unreachable(pub_trace[k - 1].outcome)
            /\ (IsPost(e) /\ ServerFailed(e.outcome)) => slept
            /\ (IsPost(e) /\ Unreachable(e.outcome)) =>
                   (slept <=> PostNumber(pub_trace, k) < Retries)

\* a call whose first attempt could not reach the bus has returned after the
\* sleep that followed its final attempt
C31_Witness ==
    /\ pub_pc = "returned" /\ Len(Posts(pub_trace)) = Retries
    /\ IsSleep(pub_trace[Len(pub_trace)])
    /\ Unreachable(pub_trace[1].outcome)

\* the posts of the publish call, in order
PostsMade == Posts(pub_trace)

Accepts(o) == o.kind = "status" /\ o.code \in {200, 204}

\* C32: an enabled publish call makes at most 3 HTTP attempts; every attempt
\* but its last ended in a 5xx response, a connection error or a timeout; any
\* other outcome ends the call at that attempt; and the call returns True
\* exactly when its last attempt received 200 or 204.
C32_PublishEndsWithinThreeAttempts ==
    _enabled =>
        /\ Len(PostsMade) <= Retries
        /\ pub_pc = "attempt" => Len(PostsMade) < Retries
        /\ \A n \in DOMAIN PostsMade :
               LET o == PostsMade[n].outcome
               IN  /\ n < Len(PostsMade) => (ServerFailed(o) \/ Unreachable(o))
                   /\ ~(ServerFailed(o) \/ Unreachable(o)) =>
                          /\ n = Len(PostsMade)
                          /\ pub_pc = "returned"
                          /\ pub_result <=> Accepts(o)
        /\ (pub_pc = "returned" /\ pub_event # NoEvent) =>
               /\ PostsMade # <<>>
               /\ pub_result <=> Accepts(PostsMade[Len(PostsMade)].outcome)

\* a call has returned False at its second attempt, which got a 201, after a
\* first attempt that timed out
C32_Witness ==
    /\ _enabled /\ pub_pc = "returned" /\ ~pub_result
    /\ Len(PostsMade) = 2
    /\ PostsMade[1].outcome = ExcOutcome("TimeoutException")
    /\ PostsMade[2].outcome = StatusOutcome(201)

\* C33: every connection that is in the user's set when a broadcast starts and
\* is still registered when it ends has been sent the message; one whose send
\* raised is no longer registered.
C33_NoConnectionSkipped ==
    \A h \in Handlers : Finished(h) =>
        \A c \in ev[h].start \cap ConnsOf(active_connections, ev[h].user) :
            ev[h].attempts[c] = 1 /\ c \notin ev[h].dead

\* C34: every user id that is a key of the registry maps to a non-empty set.
C34_NoEmptySetRegistered ==
    \A u \in Keys(active_connections) : active_connections[u] # {}

\* request r is the task.created event of a task with a reminder ahead
CreatedWithReminder(r) ==
    /\ rq[r].kind = "reminder.task-created"
    /\ rq[r].body = [B0 EXCEPT !.reminderAt = JInt(2)]

\* request r is the task.deleted or the task.completed event of the same task
EndOfTask(r) ==
    /\ rq[r].kind \in {"reminder.task-deleted", "reminder.task-completed"}
    /\ rq[r].body = B0

\* C35: once the reminder service has processed the task.created event and the
\* task.deleted or task.completed event of one task, in whichever order and
\* with every scheduler call answered with success, no job of the task is
\* outstanding.
C35_NoJobOutlivesItsTask ==
    \A r1, r2 \in Requests :
        (/\ CreatedWithReminder(r1) /\ Done(r1) /\ ~FailedCall(r1)
         /\ EndOfTask(r2) /\ Done(r2) /\ ~FailedCall(r2))
            => IsNone(jobs[JobName(B0.taskId)])

\* requests r1 and r2 are two deliveries of one task.completed envelope
SameEnvelope(r1, r2) ==
    /\ r1 # r2
    /\ Handles(r1, {"recurring"}) /\ Handles(r2, {"recurring"})
    /\ rq[r1].body = rq[r2].body

\* C36: of the deliveries of one task.completed envelope to the recurring
\* service, at most one issues a task-creation request.
C36_OneOccurrencePerCompletion ==
    \A r1, r2 \in Requests :
        SameEnvelope(r1, r2) => ~(CreatesNext(r1) /\ CreatesNext(r2))

\* ---- update_todo: the event of a call and its change set

Fields == {"title", "status", "reminder_at"}

\* an update_todo call on an existing task is past its commit
UpdateCommitted == op.kind = "update" /\ op.found /\ op_pc \in {"committed", "publishing", "done"}

\* the fields of the task the call gave another value
FieldsChanged == {f \in Fields : db_before[op.id][f] # db[op.id][f]}

CompletedByCall ==
    db_before[op.id].status # "completed" /\ db[op.id].status = "completed"

\* the event the call is to publish
EventDue ==
    IF CompletedByCall THEN "task.completed"
    ELSE IF FieldsChanged # {} THEN "task.updated" ELSE "none"

\* the call is inside the publisher method, or returns without having made one
OneEventAsDue ==
    UpdateCommitted =>
        /\ op.event = EventDue
        /\ pub_event # NoEvent => pub_event.type = EventDue /\ op_pc = "publishing"
        /\ op_pc = "committed" => EventDue # "none"
        /\ (op_pc = "done" /\ op_pub = "none") => EventDue = "none"

\* the fields named in the change set of the event the call built
FieldsIn(event) ==
    IF IsNone(event.data.changes) THEN {}
    ELSE {f \in Fields : ~IsNone(Val(event.data.changes)[f])}

\* the change an event tells by its type alone
ToldByType(event) == IF event.type = "task.completed" THEN {"status"} ELSE {}

CreatesNextBeforeAnEnd(r) ==
    /\ CreatesNext(r)
    /\ Interval(r) >= 1
    /\ TaskOf(r).end_date # JNull

\* every generated due date is strictly later than the date it was computed
\* from: the due date of the completed task, or today without one
GeneratedDueDatesAdvance ==
    \A r \in Requests : CreatesNextBeforeAnEnd(r) => Before(BaseOf(r), NextDue(r))

\* C38: recurrence terminates: for a recurring task with an end date and an
\* interval of at least 1, the chain of generated occurrences is finite,
\* because each generated due date is strictly later than its predecessor's
\* and no task is created once the computed due date exceeds the end date.
C38_OccurrencesAdvanceUpToTheEnd ==
    /\ \A r \in Requests : CreatesNextBeforeAnEnd(r) => Before(BaseOf(r), NextDue(r))
    /\ \A i \in DOMAIN created :
           (created[i].end_date # JNull /\ created[i].interval[2] >= 1) =>
               ~Before(created[i].end_date[2], created[i].due_date[2])

\* a task due on 3 February 2024 has been created for a recurrence that ended
\* on 1 February 2024
OccurrenceCreatedAfterTheEnd ==
    \E i \in DOMAIN created :
        /\ created[i].end_date = JDate(<<2024, 2, 1>>, "Z")
        /\ created[i].due_date = JDate(<<2024, 2, 3>>, "Z")
        /\ created[i].interval = JInt(3) /\ created[i].rule = JStr("daily")

====
